---- MODULE Spec2Model ----
(***************************************************************************)
(* API Potluck: key registry (key-manager.js), tenant / credential / bonus *)
(* ledger (user-data-manager.js), admission hook (index.js) and credential *)
(* health synchronisation (api-routes.js).                                 *)
(*                                                                         *)
(* Time is a tick counter `now`; DayTicks ticks make one calendar day and  *)
(* one day of bonus validity.  JavaScript runs one task at a time and      *)
(* yields only at an await: every action below is the code between two     *)
(* awaits.                                                                 *)
(***************************************************************************)
EXTENDS Integers, Sequences, FiniteSets, TLC

\* ------------------------------------------------------------------ bounds
MaxNow == 4
DayTicks == 2
NProc == 2
MaxBonus == 2
MaxValidity == 1
MaxDaily == 1
MaxAddedAt == 1
MaxTimeouts == 2

\* ------------------------------------------------------------- vocabulary
KEY_PREFIX == "maki_"
KeyIds == {"maki_k1"}
ApiKeyInputs == KeyIds \cup {"maki_zz", "sk_k1"}
CredIds == {"c1", "c2"}
Procs == 1..NProc
\* the request path is explored with at most two requests in flight
Requesters == {p \in Procs : p <= 2}
MaxTotal == MaxDaily + 2 * MaxBonus
Health == {"true", "false", "null"}
NoAddedAt == -1
\* DEFAULT_CONFIG.persistInterval and the least persistInterval accepted, in ms
DefaultPersistInterval == 5000
MinPersistInterval == 1000
\* the watcher's debounce window of 1000 ms, in ticks: two events are within
\* the window when the clock shows the same tick for both
DebounceTicks == 1
Stores == {"keys", "users"}
AllKeyIds == {"maki_k1", "maki_k2"}
\* the ids crypto.randomBytes can come up with
RandomKeyIds == AllKeyIds \cup {"maki_k3"}
\* the names a key is given
Names == {"", "n1"}

VARIABLES
    now,        \* Date.now(), in ticks
    config,     \* userDataStore.config
    keyStore,   \* keyStore.keys: key id -> key record
    users,      \* userDataStore.users: key id -> [credentials, credentialBonuses]
    pool,       \* the health the provider pool holds for each credential
    pc,         \* where each request / caller stands
    rkey,       \* the api key each caller passed
    ret,        \* what consumeBonus returned to the caller still holding it
    last,       \* what the latest validateKey / incrementUsage call returned
    locked,     \* bonusMutex._locked
    waiting,    \* bonusMutex._waiting
    sync,       \* the per-tenant health pass: [pc, key, results, bonusSync]
    sched,      \* the scheduled health pass: [pc, users, results, total, checked, ...]
    keysDirty,  \* key-manager.js isDirty
    usersDirty, \* user-data-manager.js isDirty
    disk,       \* the content of each file of the configs directory
    persist,    \* per store: isWriting and the persistIfDirty call in flight
    timer,      \* per store: the interval persistTimer is armed with, and
                \* user-data-manager.js currentPersistInterval
    watcher,    \* lastReloadTime and the change events fs.watch has yet to deliver
    admin       \* the management call in progress and what it returned

vars == <<now, config, keyStore, users, pool, pc, rkey, ret, last, locked, waiting,
          sync, sched, keysDirty, usersDirty, disk, persist, timer, watcher, admin>>

\* what the request path, the ledger and the health passes leave alone
durable == <<disk, persist, timer, watcher, admin>>

\* --------------------------------------------------------------- helpers
Min(a, b) == IF a < b THEN a ELSE b

Max(a, b) == IF a < b THEN b ELSE a

startsWith(s, prefix) ==
    prefix = KEY_PREFIX /\ s \in {"maki_k1", "maki_k2", "maki_k3", "maki_zz"}

RECURSIVE SumSeq(_)
SumSeq(s) == IF s = <<>> THEN 0 ELSE Head(s) + SumSeq(Tail(s))

\* --------------------------------------------------------------- config
getBonusConfig == [bonusPerCredential |-> config.bonusPerCredential,
                   bonusValidityDays |-> config.bonusValidityDays]

\* ---------------------------------------------------------------- ledger
calculateExpiresAt(grantedAt) == grantedAt + getBonusConfig.bonusValidityDays * DayTicks

\* variant: no bonus ever expires
isBonusExpiredNever(bonus) == FALSE

isBonusExpired(bonus) == now > calculateExpiresAt(bonus.grantedAt)

\* indices of the bonuses the filter keeps, in array order
NotExpiredIdx(bonuses) ==
    SelectSeq([i \in 1..Len(bonuses) |-> i], LAMBDA i : ~isBonusExpired(bonuses[i]))

\* Array.prototype.sort is stable: an element goes after every element that
\* does not compare greater
RECURSIVE InsertByGrantedAt(_, _, _)
InsertByGrantedAt(bonuses, sorted, i) ==
    IF sorted = <<>> THEN <<i>>
    ELSE IF bonuses[Head(sorted)].grantedAt - bonuses[i].grantedAt > 0
         THEN <<i>> \o sorted
         ELSE <<Head(sorted)>> \o InsertByGrantedAt(bonuses, Tail(sorted), i)

RECURSIVE SortByGrantedAt(_, _)
SortByGrantedAt(bonuses, idx) ==
    IF idx = <<>> THEN <<>>
    ELSE InsertByGrantedAt(bonuses,
                           SortByGrantedAt(bonuses, SubSeq(idx, 1, Len(idx) - 1)),
                           idx[Len(idx)])

\* variant: the filter without the sort, bonuses taken in array order
sortedBonusesArrayOrder(bonuses) == NotExpiredIdx(bonuses)

sortedBonuses(bonuses) == SortByGrantedAt(bonuses, NotExpiredIdx(bonuses))

\* variant: a bonus used up to its capacity still counts as having some left
HasRemainingOffByOne(bonus) == getBonusConfig.bonusPerCredential - bonus.usedCount >= 0

HasRemaining(bonus) == getBonusConfig.bonusPerCredential - bonus.usedCount > 0

\* the for loop of consumeBonus: index of the first sorted bonus with
\* remaining > 0, or 0
RECURSIVE FirstWithRemaining(_, _)
FirstWithRemaining(bonuses, sorted) ==
    IF sorted = <<>> THEN 0
    ELSE IF HasRemaining(bonuses[Head(sorted)]) THEN Head(sorted)
         ELSE FirstWithRemaining(bonuses, Tail(sorted))

\* variant: the body answers true without counting the use
consumeBodyNoCount(apiKey) == [ok |-> TRUE, users |-> users]

\* the body consumeBonus runs under the mutex: [ok, users]
consumeBody(apiKey) ==
    IF apiKey \notin DOMAIN users THEN [ok |-> FALSE, users |-> users]
    ELSE LET bonuses == users[apiKey].credentialBonuses
             i == FirstWithRemaining(bonuses, sortedBonuses(bonuses))
         IN  IF i = 0 THEN [ok |-> FALSE, users |-> users]
             ELSE [ok |-> TRUE,
                   users |-> [users EXCEPT ![apiKey].credentialBonuses[i].usedCount = @ + 1]]

bonusRemainingOf(bonus, healthyIds, filtered) ==
    IF isBonusExpired(bonus) THEN 0
    ELSE IF filtered /\ bonus.credentialId \notin healthyIds THEN 0
    ELSE IF getBonusConfig.bonusPerCredential - bonus.usedCount > 0
         THEN getBonusConfig.bonusPerCredential - bonus.usedCount
         ELSE 0

calculateBonusRemaining(bonuses, healthyIds, filtered) ==
    SumSeq([i \in 1..Len(bonuses) |-> bonusRemainingOf(bonuses[i], healthyIds, filtered)])

hasBonusFor(bonuses, id) == \E i \in 1..Len(bonuses) : bonuses[i].credentialId = id

\* variant of the first loop: a new bonus is granted at the time of the call
RECURSIVE addHealthyBonusesNow(_, _)
addHealthyBonusesNow(bonuses, creds) ==
    IF creds = <<>> THEN bonuses
    ELSE LET cred == Head(creds)
             next == IF cred.isHealthy = "true" /\ ~hasBonusFor(bonuses, cred.id)
                     THEN Append(bonuses,
                                 [credentialId |-> cred.id, grantedAt |-> now,
                                  usedCount |-> 0])
                     ELSE bonuses
         IN  addHealthyBonusesNow(next, Tail(creds))

\* first loop of syncCredentialBonuses: a bonus for every healthy credential
\* that has none, granted at the credential's addedAt
RECURSIVE addHealthyBonuses(_, _)
addHealthyBonuses(bonuses, creds) ==
    IF creds = <<>> THEN bonuses
    ELSE LET cred == Head(creds)
             next == IF cred.isHealthy = "true" /\ ~hasBonusFor(bonuses, cred.id)
                     THEN Append(bonuses,
                                 [credentialId |-> cred.id,
                                  grantedAt |-> IF cred.addedAt = NoAddedAt THEN now
                                                ELSE cred.addedAt,
                                  usedCount |-> 0])
                     ELSE bonuses
         IN  addHealthyBonuses(next, Tail(creds))

\* syncCredentialBonuses on a bonus array: the array afterwards and the
\* value returned
syncBonuses(bonuses, credentialsWithHealth) ==
    LET healthyIds == {credentialsWithHealth[i].id : i \in
                          {j \in 1..Len(credentialsWithHealth) :
                              credentialsWithHealth[j].isHealthy = "true"}}
        afterAdd == addHealthyBonuses(bonuses, credentialsWithHealth)
        afterRemove == SelectSeq(afterAdd, LAMBDA b : b.credentialId \in healthyIds)
        afterPurge == SelectSeq(afterRemove, LAMBDA b : ~isBonusExpired(b))
        added == Len(afterAdd) - Len(bonuses)
        removed == Len(afterAdd) - Len(afterRemove)
        expiredCount == Len(afterRemove) - Len(afterPurge)
    IN  [bonuses |-> afterPurge,
         added |-> added,
         removed |-> removed,
         dirty |-> added > 0 \/ removed > 0 \/ expiredCount > 0,
         bonusRemaining |-> calculateBonusRemaining(afterPurge, healthyIds, TRUE)]

\* ---------------------------------------------------------- key registry
getTodayDateString == now \div DayTicks

\* variant: the count is reset on every call, whatever the date
checkAndResetDailyCountAlways(keyData) ==
    [keyData EXCEPT !.todayUsage = 0, !.lastResetDate = getTodayDateString]

checkAndResetDailyCount(keyData) ==
    IF keyData.lastResetDate # getTodayDateString
    THEN [keyData EXCEPT !.todayUsage = 0, !.lastResetDate = getTodayDateString]
    ELSE keyData

NoRet == [op |-> "none", key |-> "", ok |-> FALSE, reason |-> "", bonus |-> FALSE, n |-> 0,
          status |-> 0, authorized |-> FALSE]

\* validateKey's { valid: false, reason }
Rejected(apiKey, reason) == [NoRet EXCEPT !.op = "validateKey", !.key = apiKey, !.reason = reason]

\* validateKey's { valid: true, useBonus, bonusRemaining }
Admitted(apiKey, useBonus, bonusRemaining) ==
    [NoRet EXCEPT !.op = "validateKey", !.key = apiKey, !.ok = TRUE, !.bonus = useBonus,
                  !.n = bonusRemaining]

\* variant: a key out of daily quota is refused without a look at its bonus
validateKeyDailyOnly(apiKey) ==
    IF ~startsWith(apiKey, KEY_PREFIX)
    THEN [ret |-> Rejected(apiKey, "invalid_format"), keys |-> keyStore]
    ELSE IF apiKey \notin DOMAIN keyStore
    THEN [ret |-> Rejected(apiKey, "not_found"), keys |-> keyStore]
    ELSE IF ~keyStore[apiKey].enabled
    THEN [ret |-> Rejected(apiKey, "disabled"), keys |-> keyStore]
    ELSE LET keyData == checkAndResetDailyCount(keyStore[apiKey])
             keys == [keyStore EXCEPT ![apiKey] = keyData]
         IN  IF keyData.todayUsage < keyData.dailyLimit
             THEN [ret |-> Admitted(apiKey, FALSE, 0), keys |-> keys]
             ELSE [ret |-> Rejected(apiKey, "quota_exceeded"), keys |-> keys]

\* variant: the lazy reset runs before the look at enabled
validateKeyResetFirst(apiKey) ==
    IF ~startsWith(apiKey, KEY_PREFIX)
    THEN [ret |-> Rejected(apiKey, "invalid_format"), keys |-> keyStore]
    ELSE IF apiKey \notin DOMAIN keyStore
    THEN [ret |-> Rejected(apiKey, "not_found"), keys |-> keyStore]
    ELSE LET keyData == checkAndResetDailyCount(keyStore[apiKey])
             keys == [keyStore EXCEPT ![apiKey] = keyData]
         IN  IF ~keyData.enabled
             THEN [ret |-> Rejected(apiKey, "disabled"), keys |-> keys]
             ELSE IF keyData.todayUsage < keyData.dailyLimit
             THEN [ret |-> Admitted(apiKey, FALSE, 0), keys |-> keys]
             ELSE IF keyData.bonusRemaining > 0
             THEN [ret |-> Admitted(apiKey, TRUE, keyData.bonusRemaining), keys |-> keys]
             ELSE [ret |-> Rejected(apiKey, "quota_exceeded"), keys |-> keys]

\* validateKey: the value returned and the key table afterwards
validateKey(apiKey) ==
    IF ~startsWith(apiKey, KEY_PREFIX)
    THEN [ret |-> Rejected(apiKey, "invalid_format"), keys |-> keyStore]
    ELSE IF apiKey \notin DOMAIN keyStore
    THEN [ret |-> Rejected(apiKey, "not_found"), keys |-> keyStore]
    ELSE IF ~keyStore[apiKey].enabled
    THEN [ret |-> Rejected(apiKey, "disabled"), keys |-> keyStore]
    ELSE LET keyData == checkAndResetDailyCount(keyStore[apiKey])
             keys == [keyStore EXCEPT ![apiKey] = keyData]
         IN  IF keyData.todayUsage < keyData.dailyLimit
             THEN [ret |-> Admitted(apiKey, FALSE, 0), keys |-> keys]
             ELSE IF keyData.bonusRemaining > 0
             THEN [ret |-> Admitted(apiKey, TRUE, keyData.bonusRemaining), keys |-> keys]
             ELSE [ret |-> Rejected(apiKey, "quota_exceeded"), keys |-> keys]

\* what incrementUsage returns: null, or the key record with usedBonus
UsageNull(apiKey) == [NoRet EXCEPT !.op = "incrementUsage", !.key = apiKey]

UsageDone(apiKey, usedBonus) ==
    [NoRet EXCEPT !.op = "incrementUsage", !.key = apiKey, !.ok = TRUE, !.bonus = usedBonus]

\* ------------------------------------------------------------ bonusMutex
\* SimpleMutex.acquire, run by caller p: the lock is taken or p queues
Acquire(p) ==
    IF ~locked
    THEN /\ locked' = TRUE
         /\ waiting' = waiting
         /\ pc' = [pc EXCEPT ![p] = "granted"]
    ELSE /\ locked' = locked
         /\ waiting' = Append(waiting, p)
         /\ pc' = [pc EXCEPT ![p] = "waiting"]

\* variant of release: the lock is given up whether or not somebody waits
ReleaseMutexUnlocks(p, next) ==
    /\ locked' = FALSE
    /\ waiting' = waiting
    /\ pc' = [pc EXCEPT ![p] = next]

\* SimpleMutex.release, run by caller p, who goes on at `next`
ReleaseMutex(p, next) ==
    IF Len(waiting) > 0
    THEN /\ waiting' = Tail(waiting)
         /\ locked' = locked
         /\ pc' = [pc EXCEPT ![p] = next, ![Head(waiting)] = "granted"]
    ELSE /\ locked' = FALSE
         /\ waiting' = waiting
         /\ pc' = [pc EXCEPT ![p] = next]

\* ---------------------------------------------------------------- actions
\* the clock
Tick ==
    /\ now < MaxNow
    /\ now' = now + 1
    /\ UNCHANGED durable
    /\ UNCHANGED <<sched, config, keyStore, users, pool, pc, rkey, ret, last, locked, waiting,
                   sync, keysDirty, usersDirty>>

\* what a call on a key id that is not in the table answers and leaves
NotFound(result) == [result |-> result, keys |-> keyStore, dirty |-> keysDirty]

\* a call that changed the record of keyId and called markDirty
Updated(keyId, keyData) ==
    [result |-> "keyData", keys |-> [keyStore EXCEPT ![keyId] = keyData], dirty |-> TRUE]

\* variant: markDirty comes before the look at the table
toggleKeyDirtyFirst(keyId) ==
    IF keyId \notin DOMAIN keyStore THEN [NotFound("null") EXCEPT !.dirty = TRUE]
    ELSE Updated(keyId, [keyStore[keyId] EXCEPT !.enabled = ~@])

\* toggleKey(keyId): the answer, the table and the dirty flag afterwards
toggleKey(keyId) ==
    IF keyId \notin DOMAIN keyStore THEN NotFound("null")
    ELSE Updated(keyId, [keyStore[keyId] EXCEPT !.enabled = ~@])

updateKeyLimit(keyId, newLimit) ==
    IF keyId \notin DOMAIN keyStore THEN NotFound("null")
    ELSE Updated(keyId, [keyStore[keyId] EXCEPT !.dailyLimit = newLimit])

resetKeyUsage(keyId) ==
    IF keyId \notin DOMAIN keyStore THEN NotFound("null")
    ELSE Updated(keyId, [keyStore[keyId] EXCEPT !.todayUsage = 0,
                                                !.lastResetDate = getTodayDateString])

updateKeyName(keyId, newName) ==
    IF keyId \notin DOMAIN keyStore THEN NotFound("null")
    ELSE Updated(keyId, [keyStore[keyId] EXCEPT !.name = newName])

\* variant: the value is stored as it is given
updateBonusRemainingAsGiven(keyId, bonusRemaining) ==
    IF keyId \notin DOMAIN keyStore THEN NotFound("false")
    ELSE [Updated(keyId, [keyStore[keyId] EXCEPT !.bonusRemaining = bonusRemaining])
            EXCEPT !.result = "true"]

\* updateBonusRemaining(keyId, bonusRemaining)
updateBonusRemaining(keyId, bonusRemaining) ==
    IF keyId \notin DOMAIN keyStore THEN NotFound("false")
    ELSE [Updated(keyId, [keyStore[keyId] EXCEPT !.bonusRemaining = Max(0, bonusRemaining)])
            EXCEPT !.result = "true"]

\* one of toggleKey, updateKeyLimit, resetKeyUsage, updateKeyName is called
\* and answers r: none of them flushes
KeyCall(r) ==
    /\ keyStore' = r.keys
    /\ keysDirty' = r.dirty
    /\ UNCHANGED <<sched, now, config, users, pool, pc, rkey, ret, last, locked, waiting,
                   sync, usersDirty>>

ToggleKey(k) ==
    /\ KeyCall(toggleKey(k))
    /\ UNCHANGED durable

UpdateBonusRemaining(k, bonusRemaining) ==
    /\ KeyCall(updateBonusRemaining(k, bonusRemaining))
    /\ UNCHANGED durable

UpdateKeyLimit(k, newLimit) ==
    /\ KeyCall(updateKeyLimit(k, newLimit))
    /\ UNCHANGED durable

ResetKeyUsage(k) ==
    /\ KeyCall(resetKeyUsage(k))
    /\ UNCHANGED durable

UpdateKeyName(k, newName) ==
    /\ KeyCall(updateKeyName(k, newName))
    /\ UNCHANGED durable

\* variant: the daily reset is done on the record of the table
getKeyInPlace(keyId) ==
    IF keyId \notin DOMAIN keyStore THEN [view |-> <<>>, keys |-> keyStore]
    ELSE [view |-> <<checkAndResetDailyCount(keyStore[keyId])>>,
          keys |-> [keyStore EXCEPT ![keyId] = checkAndResetDailyCount(@)]]

\* getKey(keyId): null (no record), or a copy of the record after
\* checkAndResetDailyCount; the table afterwards
getKey(keyId) ==
    IF keyId \notin DOMAIN keyStore THEN [view |-> <<>>, keys |-> keyStore]
    ELSE [view |-> <<checkAndResetDailyCount(keyStore[keyId])>>, keys |-> keyStore]

\* listKeys: a copy of every record after checkAndResetDailyCount, under
\* its id; the table afterwards
listKeys ==
    [view |-> [k \in DOMAIN keyStore |-> checkAndResetDailyCount(keyStore[k])],
     keys |-> keyStore]

\* a route answers with what getKey or listKeys returned
KeyView(op, keyId, r) ==
    /\ keyStore' = r.keys
    /\ admin' = [op |-> op, pc |-> "returned", key |-> keyId, result |-> "ok", view |-> r.view]
    /\ UNCHANGED <<now, config, users, pool, pc, rkey, ret, last, locked, waiting,
                   sync, sched, keysDirty, usersDirty, disk, persist, timer, watcher>>

GetKey(k) ==
    /\ admin.pc \in {"idle", "returned"}
    /\ KeyView("getKey", k, getKey(k))

ListKeys ==
    /\ admin.pc \in {"idle", "returned"}
    /\ KeyView("listKeys", "", listKeys)

\* variant: every rejection is answered 401
statusCodesDefault(reason) == 401

\* authenticate's statusCodes[validation.reason] || 401
statusCodes(reason) ==
    CASE reason = "invalid_format" -> 401
      [] reason = "not_found" -> 401
      [] reason = "disabled" -> 403
      [] reason = "quota_exceeded" -> 429
      [] OTHER -> 401

\* authenticate on a request that carries apiKey: what validateKey returned
\* with the status of the error sent (0 when none is sent) and authorized,
\* and the key table afterwards
authenticate(apiKey) ==
    LET v == validateKey(apiKey)
    IN  IF ~v.ret.ok
        THEN [ret |-> [v.ret EXCEPT !.status = statusCodes(v.ret.reason),
                                    !.authorized = FALSE],
              keys |-> v.keys]
        ELSE [ret |-> [v.ret EXCEPT !.authorized = TRUE], keys |-> v.keys]

\* authenticate: validateKey on the request's key; an admitted request goes
\* on to content generation
Validate(p, apiKey) ==
    /\ pc[p] = "idle"
    /\ LET v == authenticate(apiKey)
       IN  /\ keyStore' = v.keys
           /\ last' = v.ret
           /\ rkey' = [rkey EXCEPT ![p] = IF v.ret.ok THEN apiKey ELSE ""]
           /\ pc' = [pc EXCEPT ![p] = IF v.ret.ok THEN "admitted" ELSE "idle"]
    /\ UNCHANGED durable
    /\ UNCHANGED <<sched, now, config, users, pool, ret, locked, waiting,
                   sync, keysDirty, usersDirty>>

\* the request ends after authenticate without generating content: the
\* onContentGenerated hook is not called for it
RequestFails(p) ==
    /\ pc[p] = "admitted"
    /\ pc' = [pc EXCEPT ![p] = "idle"]
    /\ rkey' = [rkey EXCEPT ![p] = ""]
    /\ UNCHANGED durable
    /\ UNCHANGED <<now, config, keyStore, users, pool, ret, last, locked, waiting,
                   sync, sched, keysDirty, usersDirty>>

\* callers whose incrementUsage stands at the await of onBonusUsed
InFlight(apiKey) ==
    Cardinality({q \in Procs : rkey[q] = apiKey
                               /\ pc[q] \in {"waiting", "granted", "holding", "released"}})

\* onContentGenerated -> incrementUsage, up to its return or to the await of
\* onBonusUsed, whose consumeBonus reaches bonusMutex.acquire at once
IncrementUsage(p) ==
    /\ pc[p] = "admitted"
    /\ rkey[p] \in DOMAIN keyStore => keyStore[rkey[p]].totalUsage + InFlight(rkey[p]) < MaxTotal
    /\ LET apiKey == rkey[p]
       IN  IF apiKey \notin DOMAIN keyStore
           THEN /\ last' = UsageNull(apiKey)
                /\ pc' = [pc EXCEPT ![p] = "idle"]
                /\ rkey' = [rkey EXCEPT ![p] = ""]
                /\ UNCHANGED <<keyStore, keysDirty, locked, waiting>>
           ELSE LET keyData == checkAndResetDailyCount(keyStore[apiKey])
                IN  IF keyData.todayUsage < keyData.dailyLimit
                    THEN /\ keyStore' = [keyStore EXCEPT ![apiKey] =
                                [keyData EXCEPT !.todayUsage = @ + 1, !.totalUsage = @ + 1]]
                         /\ keysDirty' = TRUE
                         /\ last' = UsageDone(apiKey, FALSE)
                         /\ pc' = [pc EXCEPT ![p] = "idle"]
                         /\ rkey' = [rkey EXCEPT ![p] = ""]
                         /\ UNCHANGED <<locked, waiting>>
                    ELSE IF keyData.bonusRemaining > 0
                    THEN /\ keyStore' = [keyStore EXCEPT ![apiKey] =
                                [keyData EXCEPT !.bonusRemaining = @ - 1]]
                         /\ Acquire(p)
                         /\ UNCHANGED <<last, rkey, keysDirty>>
                    ELSE /\ keyStore' = [keyStore EXCEPT ![apiKey] = keyData]
                         /\ last' = UsageNull(apiKey)
                         /\ pc' = [pc EXCEPT ![p] = "idle"]
                         /\ rkey' = [rkey EXCEPT ![p] = ""]
                         /\ UNCHANGED <<keysDirty, locked, waiting>>
    /\ UNCHANGED durable
    /\ UNCHANGED <<sched, now, config, users, pool, ret, sync, usersDirty>>

\* consumeBonus called on its own: runExclusive reaches acquire at once
ConsumeBonus(p, apiKey) ==
    /\ pc[p] = "idle"
    /\ rkey' = [rkey EXCEPT ![p] = apiKey]
    /\ Acquire(p)
    /\ UNCHANGED durable
    /\ UNCHANGED <<sched, now, config, keyStore, users, pool, ret, last,
                   sync, keysDirty, usersDirty>>

\* runExclusive, lock held: the body of consumeBonus, up to `await fn()`
ConsumeBody(p) ==
    /\ pc[p] = "granted"
    /\ LET r == consumeBody(rkey[p])
       IN  /\ users' = r.users
           /\ usersDirty' = (usersDirty \/ r.ok)
           /\ ret' = [ret EXCEPT ![p] = IF r.ok THEN "true" ELSE "false"]
    /\ pc' = [pc EXCEPT ![p] = "holding"]
    /\ UNCHANGED durable
    /\ UNCHANGED <<sched, now, config, keyStore, pool, rkey, last, locked, waiting,
                   sync, keysDirty>>

\* runExclusive, lock held: `await fn()` throws; the finally block is next
\* and the promise of runExclusive will reject
BodyThrows(p) ==
    /\ pc[p] = "granted"
    /\ ret' = [ret EXCEPT ![p] = "throw"]
    /\ pc' = [pc EXCEPT ![p] = "holding"]
    /\ UNCHANGED durable
    /\ UNCHANGED <<sched, now, config, keyStore, users, pool, rkey, last, locked, waiting,
                   sync, keysDirty, usersDirty>>

\* runExclusive's finally: release; consumeBonus's promise settles
Release(p) ==
    /\ pc[p] = "holding"
    /\ ReleaseMutex(p, "released")
    /\ UNCHANGED durable
    /\ UNCHANGED <<sched, now, config, keyStore, users, pool, rkey, ret, last,
                   sync, keysDirty, usersDirty>>

\* a caller of consumeBonus alone has its answer and goes
ConsumeReturn(p) ==
    /\ pc[p] = "released"
    /\ pc' = [pc EXCEPT ![p] = "idle"]
    /\ rkey' = [rkey EXCEPT ![p] = ""]
    /\ ret' = [ret EXCEPT ![p] = "none"]
    /\ UNCHANGED durable
    /\ UNCHANGED <<sched, now, config, keyStore, users, pool, last, locked, waiting,
                   sync, keysDirty, usersDirty>>

\* incrementUsage after `await onBonusUsed(apiKey)`: the callback's value is
\* dropped; keyData is the object read before the await
FinishUsage(p) ==
    /\ pc[p] = "released"
    /\ keyStore' = IF rkey[p] \in DOMAIN keyStore
                   THEN [keyStore EXCEPT ![rkey[p]].totalUsage = @ + 1]
                   ELSE keyStore
    /\ keysDirty' = TRUE
    /\ last' = UsageDone(rkey[p], TRUE)
    /\ pc' = [pc EXCEPT ![p] = "idle"]
    /\ rkey' = [rkey EXCEPT ![p] = ""]
    /\ ret' = [ret EXCEPT ![p] = "none"]
    /\ UNCHANGED durable
    /\ UNCHANGED <<sched, now, config, users, pool, locked, waiting, sync, usersDirty>>

\* ------------------------------------------------------------ health pass
NoSync == [added |-> 0, removed |-> 0, bonusRemaining |-> 0]

SyncIdle == [pc |-> "idle", key |-> "", results |-> <<>>, bonusSync |-> NoSync]

getUserCredentials(apiKey) ==
    IF apiKey \in DOMAIN users THEN users[apiKey].credentials ELSE <<>>

ensureUserData(apiKey) ==
    IF apiKey \in DOMAIN users THEN users
    ELSE [k \in DOMAIN users \cup {apiKey} |->
            IF k = apiKey THEN [credentials |-> <<>>, credentialBonuses |-> <<>>]
            ELSE users[k]]

\* checkUserCredentialsHealth from the end of its loop to the await of
\* syncCredentialBonuses, which has run by then
Reconcile(apiKey, res) ==
    LET ensured == ensureUserData(apiKey)
        r == syncBonuses(ensured[apiKey].credentialBonuses, res)
    IN  /\ users' = [ensured EXCEPT ![apiKey].credentialBonuses = r.bonuses]
        /\ usersDirty' = (usersDirty \/ r.dirty \/ apiKey \notin DOMAIN users)
        /\ sync' = [pc |-> "synced", key |-> apiKey, results |-> res,
                    bonusSync |-> [added |-> r.added, removed |-> r.removed,
                                   bonusRemaining |-> r.bonusRemaining]]

\* checkUserCredentialsHealth is called for a tenant
SyncStart(apiKey) ==
    /\ sync.pc = "idle"
    /\ IF getUserCredentials(apiKey) = <<>>
       THEN Reconcile(apiKey, <<>>)
       ELSE /\ sync' = [SyncIdle EXCEPT !.pc = "checking", !.key = apiKey]
            /\ UNCHANGED <<users, usersDirty>>
    /\ UNCHANGED durable
    /\ UNCHANGED <<sched, now, config, keyStore, pool, pc, rkey, ret, last, locked, waiting,
                   keysDirty>>

\* one turn of the loop: syncCredentialHealthFromPool answers h for the next
\* credential (null also when it throws), the result is pushed; after the
\* last credential syncCredentialBonuses runs
SyncCheck(h) ==
    /\ sync.pc = "checking"
    /\ LET credentials == getUserCredentials(sync.key)
           i == Len(sync.results) + 1
       IN  /\ i <= Len(credentials)
           /\ LET res == Append(sync.results,
                                [id |-> credentials[i].id, isHealthy |-> h,
                                 addedAt |-> credentials[i].addedAt])
              IN  IF i = Len(credentials)
                  THEN Reconcile(sync.key, res)
                  ELSE /\ sync' = [sync EXCEPT !.results = res]
                       /\ UNCHANGED <<users, usersDirty>>
    /\ UNCHANGED durable
    /\ UNCHANGED <<sched, now, config, keyStore, pool, pc, rkey, ret, last, locked, waiting,
                   keysDirty>>

\* updateBonusRemaining(apiKey, bonusSync.bonusRemaining), and the pass ends
SyncFinish ==
    /\ sync.pc = "synced"
    /\ LET r == updateBonusRemaining(sync.key, sync.bonusSync.bonusRemaining)
       IN  /\ keyStore' = r.keys
           /\ keysDirty' = r.dirty
    /\ sync' = SyncIdle
    /\ UNCHANGED durable
    /\ UNCHANGED <<sched, now, config, users, pool, pc, rkey, ret, last, locked, waiting,
                   usersDirty>>

\* ---------------------------------------------------------- scheduled pass
SchedIdle == [pc |-> "idle", allUsers |-> <<>>, u |-> 0, c |-> 0,
              total |-> 0, checked |-> 0, healthy |-> 0, unhealthy |-> 0]

\* the tenants that hold a credential, with their credentials
getAllUsersCredentials ==
    LET holders == {k \in DOMAIN users : Len(users[k].credentials) > 0}
        RECURSIVE List(_)
        List(S) == IF S = {} THEN <<>>
                   ELSE LET k == CHOOSE x \in S : TRUE
                        IN  <<[apiKey |-> k, credentials |-> users[k].credentials]>>
                            \o List(S \ {k})
    IN  List(holders)

\* the provider pool changes its mind on a credential of a tenant whose
\* ledger agrees with what the pool said before
SetHealth(k, i, h) ==
    /\ k \in DOMAIN users
    /\ i \in 1..Len(users[k].credentials)
    /\ h # pool[users[k].credentials[i].id]
    /\ (pool[users[k].credentials[i].id] = "true")
         = hasBonusFor(users[k].credentialBonuses, users[k].credentials[i].id)
    /\ pool' = [pool EXCEPT ![users[k].credentials[i].id] = h]
    /\ UNCHANGED durable
    /\ UNCHANGED <<now, config, keyStore, users, pc, rkey, ret, last, locked, waiting,
                   sync, sched, keysDirty, usersDirty>>

\* the setTimeout / setInterval callback of startHealthCheckScheduler calls
\* checkAllCredentialsHealth, which runs to its first await, or to its end
\* when nobody holds a credential
PassBegins ==
    /\ sched.pc \in {"idle", "done"}
    /\ LET allUsers == getAllUsersCredentials
       IN  sched' = IF allUsers = <<>> THEN [SchedIdle EXCEPT !.pc = "done"]
                    ELSE [SchedIdle EXCEPT !.pc = "running", !.allUsers = allUsers,
                                           !.u = 1, !.c = 1, !.total = 1]
    /\ UNCHANGED <<now, config, keyStore, users, pool, pc, rkey, ret, last, locked, waiting,
                   sync, keysDirty, usersDirty>>

SchedFire ==
    /\ PassBegins
    /\ UNCHANGED durable

\* the timers of the scheduler next to the persist timers: healthCheckTimer
\* is set or null, `intervals` interval timers and `timeouts` timeouts of a
\* first pass are armed
NotScheduled == [healthCheckTimer |-> FALSE, intervals |-> 0, timeouts |-> 0]

\* startHealthCheckScheduler: the interval timer in healthCheckTimer is
\* cleared, a timeout for the first pass and a new interval timer are armed
StartHealthCheckScheduler ==
    /\ timer.timeouts < MaxTimeouts
    /\ timer' = [timer EXCEPT
                    !.intervals = (IF timer.healthCheckTimer THEN @ - 1 ELSE @) + 1,
                    !.timeouts = @ + 1,
                    !.healthCheckTimer = TRUE]
    /\ UNCHANGED <<now, config, keyStore, users, pool, pc, rkey, ret, last, locked, waiting,
                   sync, sched, keysDirty, usersDirty, disk, persist, watcher, admin>>

\* stopHealthCheckScheduler: clearInterval(healthCheckTimer) when it is set
StopHealthCheckScheduler ==
    /\ timer' = IF timer.healthCheckTimer
                THEN [timer EXCEPT !.intervals = @ - 1, !.healthCheckTimer = FALSE]
                ELSE timer
    /\ UNCHANGED <<now, config, keyStore, users, pool, pc, rkey, ret, last, locked, waiting,
                   sync, sched, keysDirty, usersDirty, disk, persist, watcher, admin>>

\* the callback of the setTimeout: the first pass begins
InitialPass ==
    /\ timer.timeouts > 0
    /\ timer' = [timer EXCEPT !.timeouts = @ - 1]
    /\ PassBegins
    /\ UNCHANGED <<disk, persist, watcher, admin>>

\* the callback of the setInterval: a pass begins
IntervalPass ==
    /\ timer.intervals > 0
    /\ PassBegins
    /\ UNCHANGED durable

\* checkAllCredentialsHealth after an await of syncCredentialHealthFromPool:
\* the answer is counted and the loops go on to the next credential, or the
\* counts are returned and logged
SchedCheck ==
    /\ sched.pc = "running"
    /\ LET credentials == sched.allUsers[sched.u].credentials
           isHealthy == pool[credentials[sched.c].id]
           counted == [sched EXCEPT !.checked = @ + 1,
                                    !.healthy = IF isHealthy = "true" THEN @ + 1 ELSE @,
                                    !.unhealthy = IF isHealthy = "false" THEN @ + 1 ELSE @]
       IN  sched' = IF sched.c < Len(credentials)
                    THEN [counted EXCEPT !.c = @ + 1, !.total = @ + 1]
                    ELSE IF sched.u < Len(sched.allUsers)
                    THEN [counted EXCEPT !.u = @ + 1, !.c = 1, !.total = @ + 1]
                    ELSE [counted EXCEPT !.pc = "done", !.allUsers = <<>>, !.u = 0, !.c = 0]
    /\ UNCHANGED durable
    /\ UNCHANGED <<now, config, keyStore, users, pool, pc, rkey, ret, last, locked, waiting,
                   sync, keysDirty, usersDirty>>

\* checkAllCredentialsHealth when the awaited syncCredentialHealthFromPool
\* throws: the credential stays counted in total only, the warning is logged
\* and the loops go on as after an answer
SchedThrow ==
    /\ sched.pc = "running"
    /\ LET credentials == sched.allUsers[sched.u].credentials
       IN  sched' = IF sched.c < Len(credentials)
                    THEN [sched EXCEPT !.c = @ + 1, !.total = @ + 1]
                    ELSE IF sched.u < Len(sched.allUsers)
                    THEN [sched EXCEPT !.u = @ + 1, !.c = 1, !.total = @ + 1]
                    ELSE [sched EXCEPT !.pc = "done", !.allUsers = <<>>, !.u = 0, !.c = 0]
    /\ UNCHANGED durable
    /\ UNCHANGED <<now, config, keyStore, users, pool, pc, rkey, ret, last, locked, waiting,
                   sync, keysDirty, usersDirty>>

\* -------------------------------------------------------- durable stores
\* DEFAULT_CONFIG, its quota values scaled to the model's ranges
DEFAULT_CONFIG ==
    [defaultDailyLimit |-> MaxDaily, bonusPerCredential |-> MaxBonus,
     bonusValidityDays |-> MaxValidity, persistInterval |-> DefaultPersistInterval]

\* KEYS_STORE_FILE and USER_DATA_FILE
StoreFile(s) == IF s = "keys" THEN "api-potluck-keys.json" ELSE "api-potluck-data.json"

\* variant: the temporary file is the store's file itself
tempFileInPlace(s) == StoreFile(s)

\* KEYS_STORE_FILE + '.tmp' and USER_DATA_FILE + '.tmp'
tempFile(s) == IF s = "keys" THEN "api-potluck-keys.json.tmp" ELSE "api-potluck-data.json.tmp"

Files == {StoreFile(s) : s \in Stores} \cup {tempFile(s) : s \in Stores}

\* what a file holds: a whole JSON document, the beginning of one, nothing
Json(data) == [kind |-> "json", data |-> data]

Partial == [kind |-> "partial", data |-> <<>>]

NoFile == [kind |-> "none", data |-> <<>>]

\* JSON.stringify(keyStore) and JSON.stringify(userDataStore)
Stringify(s, keys, cfg, usrs) ==
    IF s = "keys" THEN Json([keys |-> keys]) ELSE Json([config |-> cfg, users |-> usrs])

isDirty(s) == IF s = "keys" THEN keysDirty ELSE usersDirty

NoPersist == [isWriting |-> FALSE, pc |-> "idle", data |-> NoFile, by |-> "none"]

AdminIdle == [op |-> "none", pc |-> "idle", key |-> "", result |-> "none", view |-> <<>>]

\* the watcher before any reload: no change event of the user store's file is
\* waiting. A waiting event is "own" when the file holds what the store
\* itself renamed into place, "edit" when somebody else wrote the file.
NoEvents == [lastReloadTime |-> 0, events |-> "none"]

\* the stores at rest on files that hold what memory holds
AtRest ==
    /\ disk = [f \in Files |->
                 IF f = StoreFile("keys") THEN Stringify("keys", keyStore, config, users)
                 ELSE IF f = StoreFile("users") THEN Stringify("users", keyStore, config, users)
                 ELSE NoFile]
    /\ persist = [s \in Stores |-> NoPersist]
    /\ timer = [keys |-> config.persistInterval, users |-> config.persistInterval,
                current |-> config.persistInterval]
    /\ watcher = NoEvents
    /\ admin = AdminIdle

\* persistIfDirty for store s, called by `by` after the store became
\* (mk, mc, mu) and its dirty flag d: up to the await of fs.writeFile, or to
\* the return when there is nothing to write or a write is in flight.
\* TRUE in `began` when the call went on to write.
persistIfDirty(s, by, d, mk, mc, mu) ==
    IF ~d \/ persist[s].isWriting
    THEN [began |-> FALSE, persist |-> persist]
    ELSE [began |-> TRUE,
          persist |-> [persist EXCEPT ![s] = [isWriting |-> TRUE, pc |-> "writeFile",
                                              data |-> Stringify(s, mk, mc, mu),
                                              by |-> by]]]

\* a management call that ends with `await persistIfDirty()` waits for the
\* write it began, or goes on at once and returns
AfterPersist(op, key, began) ==
    IF began THEN [op |-> op, pc |-> "flushing", key |-> key, result |-> "none", view |-> <<>>]
    ELSE [op |-> op, pc |-> "returned", key |-> key, result |-> "ok", view |-> <<>>]

\* setInterval(persistIfDirty, currentPersistInterval) fires for store s
TimerTick(s) ==
    /\ isDirty(s) /\ ~persist[s].isWriting
    /\ persist' = persistIfDirty(s, "timer", isDirty(s), keyStore, config, users).persist
    /\ UNCHANGED <<now, config, keyStore, users, pool, pc, rkey, ret, last, locked, waiting,
                   sync, sched, keysDirty, usersDirty, disk, timer, watcher, admin>>

\* fs.writeFile has opened the temporary file and written a part of it
WriteChunk(s) ==
    /\ persist[s].pc = "writeFile"
    /\ disk[tempFile(s)] # Partial
    /\ disk' = [disk EXCEPT ![tempFile(s)] = Partial]
    /\ UNCHANGED <<now, config, keyStore, users, pool, pc, rkey, ret, last, locked, waiting,
                   sync, sched, keysDirty, usersDirty, persist, timer, watcher, admin>>

\* fs.writeFile is done: persistIfDirty goes on to the await of fs.rename
WriteDone(s) ==
    /\ persist[s].pc = "writeFile"
    /\ disk' = [disk EXCEPT ![tempFile(s)] = persist[s].data]
    /\ persist' = [persist EXCEPT ![s].pc = "rename"]
    /\ UNCHANGED <<now, config, keyStore, users, pool, pc, rkey, ret, last, locked, waiting,
                   sync, sched, keysDirty, usersDirty, timer, watcher, admin>>

\* the management call that awaited this persistIfDirty goes on and returns
Resume(s) ==
    IF persist[s].by = "admin" /\ admin.pc = "flushing"
    THEN [admin EXCEPT !.pc = "returned", !.result = "ok"]
    ELSE admin

\* fs.rename is done: isDirty = false, finally isWriting = false; fs.watch
\* may report the replaced file as changed
RenameDone(s) ==
    /\ persist[s].pc = "rename"
    /\ disk' = [f \in Files |-> IF f = StoreFile(s) THEN disk[tempFile(s)]
                                ELSE IF f = tempFile(s) /\ f # StoreFile(s) THEN NoFile
                                ELSE disk[f]]
    /\ persist' = [persist EXCEPT ![s] = NoPersist]
    /\ keysDirty' = IF s = "keys" THEN FALSE ELSE keysDirty
    /\ usersDirty' = IF s = "users" THEN FALSE ELSE usersDirty
    /\ admin' = Resume(s)
    /\ \E reported \in BOOLEAN :
         watcher' = IF s = "users" /\ (reported \/ watcher.events # "none")
                    THEN [watcher EXCEPT !.events = "own"]
                    ELSE watcher
    /\ UNCHANGED <<now, config, keyStore, users, pool, pc, rkey, ret, last, locked, waiting,
                   sync, sched, timer>>

\* fs.writeFile or fs.rename rejects: the catch logs, finally isWriting =
\* false, and persistIfDirty returns normally
WriteFail(s) ==
    /\ persist[s].pc \in {"writeFile", "rename"}
    /\ persist' = [persist EXCEPT ![s] = NoPersist]
    /\ admin' = Resume(s)
    /\ UNCHANGED <<now, config, keyStore, users, pool, pc, rkey, ret, last, locked, waiting,
                   sync, sched, keysDirty, usersDirty, disk, timer, watcher>>

\* maxAttempts of generateApiKey
maxAttempts == 10

\* the do-while loop of generateApiKey on the ids crypto.randomBytes gives,
\* one for each turn, `attempts` turns being over: the candidate is drawn and
\* counted, the count is compared with maxAttempts, and only then the table
\* is asked
RECURSIVE generateApiKeyLoop(_, _)
generateApiKeyLoop(randomBytes, attempts) ==
    LET apiKey == randomBytes[attempts + 1]
    IN  IF attempts + 1 >= maxAttempts
        THEN [result |-> "throw", apiKey |-> apiKey, attempts |-> attempts + 1]
        ELSE IF apiKey \in DOMAIN keyStore
        THEN generateApiKeyLoop(randomBytes, attempts + 1)
        ELSE [result |-> "ok", apiKey |-> apiKey, attempts |-> attempts + 1]

\* generateApiKey is called and crypto.randomBytes gives these ids
GenerateApiKey(randomBytes) ==
    /\ admin.pc \in {"idle", "returned"}
    /\ LET g == generateApiKeyLoop(randomBytes, 0)
       IN  admin' = [op |-> "generateApiKey", pc |-> "returned", key |-> g.apiKey,
                     result |-> g.result,
                     view |-> [attempts |-> g.attempts, randomBytes |-> randomBytes]]
    /\ UNCHANGED <<now, config, keyStore, users, pool, pc, rkey, ret, last, locked, waiting,
                   sync, sched, keysDirty, usersDirty, disk, persist, timer, watcher>>

\* generateApiKey: a key id no key of the table has
generateApiKey == RandomKeyIds \ DOMAIN keyStore

\* the key table with key k added or removed
WithKey(k, keyData) ==
    [x \in DOMAIN keyStore \cup {k} |-> IF x = k THEN keyData ELSE keyStore[x]]

WithoutKey(k) == [x \in DOMAIN keyStore \ {k} |-> keyStore[x]]

\* createKey(name) to the await of persistIfDirty, or to its return
CreateKey(k) ==
    /\ admin.pc \in {"idle", "returned"}
    /\ k \in generateApiKey
    /\ LET keys == WithKey(k, [name |-> "",
                               enabled |-> TRUE, dailyLimit |-> config.defaultDailyLimit,
                               todayUsage |-> 0, totalUsage |-> 0,
                               lastResetDate |-> getTodayDateString, bonusRemaining |-> 0])
           r == persistIfDirty("keys", "admin", TRUE, keys, config, users)
       IN  /\ keyStore' = keys
           /\ keysDirty' = TRUE
           /\ persist' = r.persist
           /\ admin' = AfterPersist("createKey", k, r.began)
    /\ UNCHANGED <<now, config, users, pool, pc, rkey, ret, last, locked, waiting,
                   sync, sched, usersDirty, disk, timer, watcher>>

\* deleteKey(keyId) before its flush: the answer, the table and the dirty
\* flag
deleteKey(keyId) ==
    IF keyId \notin DOMAIN keyStore THEN NotFound("false")
    ELSE [result |-> "true", keys |-> WithoutKey(keyId), dirty |-> TRUE]

\* deleteKey(keyId) to the await of persistIfDirty, or to its return
DeleteKey(k) ==
    /\ admin.pc \in {"idle", "returned"}
    /\ LET d == deleteKey(k)
       IN  IF d.result = "false"
           THEN /\ admin' = [op |-> "deleteKey", pc |-> "returned", key |-> k,
                             result |-> "false", view |-> <<>>]
                /\ keyStore' = d.keys
                /\ keysDirty' = d.dirty
                /\ UNCHANGED persist
           ELSE LET r == persistIfDirty("keys", "admin", TRUE, d.keys, config, users)
                IN  /\ keyStore' = d.keys
                    /\ keysDirty' = d.dirty
                    /\ persist' = r.persist
                    /\ admin' = AfterPersist("deleteKey", k, r.began)
    /\ UNCHANGED <<now, config, users, pool, pc, rkey, ret, last, locked, waiting,
                   sync, sched, usersDirty, disk, timer, watcher>>

\* the record regenerateKey stores under the new id: the old one, its id
\* aside, with the id it had before
Regenerated(oldKeyData, oldKeyId) ==
    [f \in DOMAIN oldKeyData \cup {"regeneratedFrom"} |->
        IF f = "regeneratedFrom" THEN oldKeyId ELSE oldKeyData[f]]

\* variant: the old record stays in the table
regenerateKeyKeepOld(oldKeyId, newKeyId) ==
    IF oldKeyId \notin DOMAIN keyStore THEN NotFound("null")
    ELSE [result |-> "ok",
          keys |-> WithKey(newKeyId, Regenerated(keyStore[oldKeyId], oldKeyId)),
          dirty |-> TRUE]

\* regenerateKey(oldKeyId), generateApiKey coming up with newKeyId, before
\* its flush: the answer, the table and the dirty flag
regenerateKey(oldKeyId, newKeyId) ==
    IF oldKeyId \notin DOMAIN keyStore THEN NotFound("null")
    ELSE [result |-> "ok",
          keys |-> [k \in (DOMAIN keyStore \ {oldKeyId}) \cup {newKeyId} |->
                       IF k = newKeyId THEN Regenerated(keyStore[oldKeyId], oldKeyId)
                       ELSE keyStore[k]],
          dirty |-> TRUE]

\* regenerateKey(oldKeyId) to the await of persistIfDirty, or to its return
RegenerateKey(oldKeyId, newKeyId) ==
    /\ admin.pc \in {"idle", "returned"}
    /\ newKeyId \in generateApiKey
    /\ LET g == regenerateKey(oldKeyId, newKeyId)
       IN  IF g.result = "null"
           THEN /\ admin' = [op |-> "regenerateKey", pc |-> "returned", key |-> oldKeyId,
                             result |-> "null", view |-> <<>>]
                /\ keyStore' = g.keys
                /\ keysDirty' = g.dirty
                /\ UNCHANGED persist
           ELSE LET r == persistIfDirty("keys", "admin", TRUE, g.keys, config, users)
                IN  /\ keyStore' = g.keys
                    /\ keysDirty' = g.dirty
                    /\ persist' = r.persist
                    /\ admin' = [AfterPersist("regenerateKey", oldKeyId, r.began) EXCEPT
                                     !.view = [oldKey |-> oldKeyId, newKey |-> newKeyId]]
    /\ UNCHANGED <<now, config, users, pool, pc, rkey, ret, last, locked, waiting,
                   sync, sched, usersDirty, disk, timer, watcher>>

\* a field of newConfig that is not given (typeof is not 'number')
Undefined == -2

\* variant: every field that is given is stored
validatedConfigUnchecked(newConfig) ==
    [f \in DOMAIN newConfig |-> IF newConfig[f] # Undefined THEN newConfig[f] ELSE config[f]]

\* updateConfig's field-by-field validation: the config stored afterwards
validatedConfig(newConfig) ==
    [defaultDailyLimit |->
        IF newConfig.defaultDailyLimit # Undefined /\ newConfig.defaultDailyLimit > 0
        THEN newConfig.defaultDailyLimit ELSE config.defaultDailyLimit,
     bonusPerCredential |->
        IF newConfig.bonusPerCredential # Undefined /\ newConfig.bonusPerCredential >= 0
        THEN newConfig.bonusPerCredential ELSE config.bonusPerCredential,
     bonusValidityDays |->
        IF newConfig.bonusValidityDays # Undefined /\ newConfig.bonusValidityDays > 0
        THEN newConfig.bonusValidityDays ELSE config.bonusValidityDays,
     persistInterval |->
        IF newConfig.persistInterval # Undefined
           /\ newConfig.persistInterval >= MinPersistInterval
        THEN newConfig.persistInterval ELSE config.persistInterval]

\* updatePersistTimer(newInterval): the user store's timer is armed anew
updatePersistTimer(newInterval) ==
    IF newInterval = timer.current THEN timer
    ELSE [timer EXCEPT !.current = newInterval, !.users = newInterval]

\* updateConfig(newConfig), called by op, to the await of persistIfDirty or
\* to its return
UpdateConfigCall(op, newConfig) ==
    LET cfg == validatedConfig(newConfig)
        r == persistIfDirty("users", "admin", TRUE, keyStore, cfg, users)
    IN  /\ config' = cfg
        /\ timer' = IF newConfig.persistInterval # Undefined
                       /\ newConfig.persistInterval >= MinPersistInterval
                    THEN updatePersistTimer(newConfig.persistInterval)
                    ELSE timer
        /\ usersDirty' = TRUE
        /\ persist' = r.persist
        /\ admin' = AfterPersist(op, "", r.began)

UpdateConfig(newConfig) ==
    /\ admin.pc \in {"idle", "returned"}
    /\ UpdateConfigCall("updateConfig", newConfig)
    /\ UNCHANGED <<now, keyStore, users, pool, pc, rkey, ret, last, locked, waiting,
                   sync, sched, keysDirty, disk, watcher>>

\* the checks of PUT /api/potluck/config on the request body
putConfigValid(body) ==
    /\ body.defaultDailyLimit = Undefined \/ body.defaultDailyLimit >= 1
    /\ body.bonusPerCredential = Undefined \/ body.bonusPerCredential >= 0
    /\ body.bonusValidityDays = Undefined \/ body.bonusValidityDays >= 1
    /\ body.persistInterval = Undefined \/ body.persistInterval >= MinPersistInterval

\* PUT /api/potluck/config: 400 on a bad field, updateConfig otherwise
PutConfig(body) ==
    /\ admin.pc \in {"idle", "returned"}
    /\ IF putConfigValid(body)
       THEN UpdateConfigCall("putConfig", body)
       ELSE /\ admin' = [op |-> "putConfig", pc |-> "returned", key |-> "", result |-> "400", view |-> <<>>]
            /\ UNCHANGED <<config, timer, usersDirty, persist>>
    /\ UNCHANGED <<now, keyStore, users, pool, pc, rkey, ret, last, locked, waiting,
                   sync, sched, keysDirty, disk, watcher>>

\* the process is started and has not loaded its stores yet
Loading == [op |-> "none", pc |-> "loading", key |-> "", result |-> "none", view |-> <<>>]

\* the files that are not there on a first start
Missing == {s \in Stores : disk[StoreFile(s)].kind = "none"}

\* ensureLoaded on a first start, store s having no file: the store is empty
\* and syncWriteToFile writes it to the store's file in place. A process
\* killed inside writeFileSync leaves a part of the document; started again
\* it finds a file it cannot parse and goes on with the empty store.
EnsureLoaded(s) ==
    /\ admin.pc = "loading"
    /\ s \in Missing
    /\ \E written \in {Stringify(s, <<>>, DEFAULT_CONFIG, <<>>), Partial} :
         disk' = [disk EXCEPT ![StoreFile(s)] = written]
    /\ admin' = IF Missing = {s} THEN AdminIdle ELSE admin
    /\ UNCHANGED <<now, config, keyStore, users, pool, pc, rkey, ret, last, locked, waiting,
                   sync, sched, keysDirty, usersDirty, persist, timer, watcher>>

\* { keys: {} } and { config: {}, users: {} }, a config without a field
\* standing for the defaults
EmptyStore(s) ==
    IF s = "keys" THEN [keys |-> <<>>] ELSE [config |-> DEFAULT_CONFIG, users |-> <<>>]

\* variant: a document that lacks a table is dropped as a whole
LoadAllOrNothing(s) ==
    LET file == disk[StoreFile(s)]
    IN  IF s = "keys"
        THEN IF file.kind = "json" /\ "keys" \in DOMAIN file.data
             THEN [keys |-> file.data.keys] ELSE EmptyStore(s)
        ELSE IF file.kind = "json" /\ {"config", "users"} \subseteq DOMAIN file.data
             THEN [config |-> file.data.config, users |-> file.data.users]
             ELSE EmptyStore(s)

\* ensureLoaded on a fresh process: what the store's file gives. A file that
\* is not there or does not parse gives the empty store; so does a key
\* document without keys, Object.values(undefined) throwing into the catch;
\* a user document gets an empty config or an empty users where it has none
Load(s) ==
    LET file == disk[StoreFile(s)]
    IN  IF s = "keys"
        THEN IF file.kind = "json" /\ "keys" \in DOMAIN file.data
             THEN [keys |-> file.data.keys] ELSE EmptyStore(s)
        ELSE IF file.kind = "json"
             THEN [config |-> IF "config" \in DOMAIN file.data THEN file.data.config
                              ELSE EmptyStore(s).config,
                   users |-> IF "users" \in DOMAIN file.data THEN file.data.users
                             ELSE EmptyStore(s).users]
             ELSE EmptyStore(s)

\* the process dies at any point and is started again: both stores are
\* loaded from their files, whatever was being written is left as it is
Crash ==
    /\ keyStore' = Load("keys").keys
    /\ config' = Load("users").config
    /\ users' = Load("users").users
    /\ keysDirty' = FALSE
    /\ usersDirty' = FALSE
    /\ persist' = [s \in Stores |-> NoPersist]
    /\ admin' = IF Missing = {} THEN AdminIdle ELSE Loading
    /\ timer' = [keys |-> config'.persistInterval, users |-> config'.persistInterval,
                 current |-> config'.persistInterval]
    /\ watcher' = NoEvents
    /\ UNCHANGED <<now, pool, pc, rkey, ret, last, locked, waiting, sync, sched, disk>>

\* the process after process.exit
Exited == [op |-> "exit", pc |-> "exited", key |-> "", result |-> "none", view |-> <<>>]

\* SIGINT or SIGTERM arrives: the handler calls persistIfDirty, which runs up
\* to its first await, and then process.exit(0). The process ends with the
\* fs.writeFile it has just begun, or the one that was in flight, not begun,
\* cut short or done on the temporary file, and with a rename in flight done
\* or not; nothing after an await of persistIfDirty runs. The variables of
\* the stores keep what memory held when the process ended.
Signal ==
    /\ admin.pc # "exited"
    /\ LET r == persistIfDirty("keys", "signal", keysDirty, keyStore, config, users)
           writing == r.persist["keys"]
       IN  \/ /\ writing.pc = "writeFile"
              /\ \E written \in {disk[tempFile("keys")], Partial, writing.data} :
                   disk' = [disk EXCEPT ![tempFile("keys")] = written]
           \/ /\ writing.pc = "rename"
              /\ \/ disk' = disk
                 \/ disk' = [f \in Files |->
                               IF f = StoreFile("keys") THEN disk[tempFile("keys")]
                               ELSE IF f = tempFile("keys") THEN NoFile
                               ELSE disk[f]]
           \/ /\ writing.pc = "idle"
              /\ disk' = disk
    /\ persist' = [s \in Stores |-> NoPersist]
    /\ admin' = Exited
    /\ UNCHANGED <<now, config, keyStore, users, pool, pc, rkey, ret, last, locked, waiting,
                   sync, sched, keysDirty, usersDirty, timer, watcher>>

\* what may become of a store's file behind the process's back: it is
\* deleted, cut short, emptied to {}, or loses one of its tables
Damages == {"delete", "cut", "empty", "config", "users", "keys"}

Damaged(file, how) ==
    IF how = "delete" THEN NoFile
    ELSE IF how = "cut" \/ file.kind # "json" THEN Partial
    ELSE IF how = "empty" THEN Json(<<>>)
    ELSE Json([t \in DOMAIN file.data \ {how} |-> file.data[t]])

DamageFile(s, how) ==
    /\ disk[StoreFile(s)].kind # "none"
    /\ disk' = [disk EXCEPT ![StoreFile(s)] = Damaged(@, how)]
    /\ disk' # disk
    /\ UNCHANGED <<now, config, keyStore, users, pool, pc, rkey, ret, last, locked, waiting,
                   sync, sched, keysDirty, usersDirty, persist, timer, watcher, admin>>

\* ensureUserData(apiKey) for a tenant without an entry: markDirty, no flush
EnsureUserData(apiKey) ==
    /\ apiKey \notin DOMAIN users
    /\ users' = ensureUserData(apiKey)
    /\ usersDirty' = TRUE
    /\ UNCHANGED <<now, config, keyStore, pool, pc, rkey, ret, last, locked, waiting,
                   sync, sched, keysDirty, disk, persist, timer, watcher, admin>>

\* the ids addUserCredential makes up, in the order it hands them out
NewCredIds == <<"c1", "c2", "c3">>

Paths == {"p1", "p2"}

\* the credentials all tenants hold
CredentialCount ==
    Cardinality({h \in (DOMAIN users) \X (1..Len(NewCredIds)) :
                    h[2] <= Len(users[h[1]].credentials)})

\* addUserCredential(apiKey, { path }): the user table afterwards. A path the
\* tenant holds already keeps its id and addedAt; a new one is pushed with a
\* fresh id and the time of the call.
addUserCredential(apiKey, path, id) ==
    LET usrs == ensureUserData(apiKey)
        credentials == usrs[apiKey].credentials
        existing == {i \in 1..Len(credentials) : credentials[i].path = path}
        credential == [id |-> id, path |-> path, addedAt |-> now]
    IN  IF existing # {}
        THEN LET existingIndex == CHOOSE i \in existing : \A j \in existing : i <= j
             IN  [usrs EXCEPT ![apiKey].credentials[existingIndex] =
                     [credential EXCEPT !.id = credentials[existingIndex].id,
                                        !.addedAt = credentials[existingIndex].addedAt]]
        ELSE [usrs EXCEPT ![apiKey].credentials = Append(credentials, credential)]

\* addUserCredential to the await of persistIfDirty, or to its return
AddUserCredential(apiKey, path) ==
    /\ admin.pc \in {"idle", "returned"}
    /\ CredentialCount < Len(NewCredIds)
    /\ LET usrs == addUserCredential(apiKey, path, NewCredIds[CredentialCount + 1])
           r == persistIfDirty("users", "admin", TRUE, keyStore, config, usrs)
       IN  /\ users' = usrs
           /\ usersDirty' = TRUE
           /\ persist' = r.persist
           /\ admin' = AfterPersist("addUserCredential", apiKey, r.began)
    /\ UNCHANGED <<now, config, keyStore, pool, pc, rkey, ret, last, locked, waiting,
                   sync, sched, keysDirty, disk, timer, watcher>>

\* addCredentialBonus on a bonus array: the bonus found is kept as it is,
\* expired or not; a credential without one gets one granted now
addCredentialBonus(bonuses, credentialId) ==
    IF hasBonusFor(bonuses, credentialId) THEN bonuses
    ELSE Append(bonuses, [credentialId |-> credentialId, grantedAt |-> now, usedCount |-> 0])

\* addCredentialBonus(apiKey, credentialId): ensureUserData, then the bonus
\* found is returned, or one is pushed and markDirty is called
AddCredentialBonus(apiKey, credentialId) ==
    LET ensured == ensureUserData(apiKey)
        bonuses == addCredentialBonus(ensured[apiKey].credentialBonuses, credentialId)
    IN  /\ users' = [ensured EXCEPT ![apiKey].credentialBonuses = bonuses]
        /\ usersDirty' = (usersDirty \/ bonuses # ensured[apiKey].credentialBonuses)
        /\ UNCHANGED <<now, config, keyStore, pool, pc, rkey, ret, last, locked, waiting,
                       sync, sched, keysDirty, disk, persist, timer, watcher, admin>>

\* removeCredentialBonus(apiKey, credentialId): findIndex and splice
RemoveCredentialBonus(apiKey, credentialId) ==
    /\ apiKey \in DOMAIN users
    /\ hasBonusFor(users[apiKey].credentialBonuses, credentialId)
    /\ LET bonuses == users[apiKey].credentialBonuses
           index == CHOOSE i \in 1..Len(bonuses) :
                        /\ bonuses[i].credentialId = credentialId
                        /\ \A j \in 1..(i - 1) : bonuses[j].credentialId # credentialId
       IN  users' = [users EXCEPT ![apiKey].credentialBonuses =
                        SubSeq(bonuses, 1, index - 1) \o SubSeq(bonuses, index + 1, Len(bonuses))]
    /\ usersDirty' = TRUE
    /\ UNCHANGED <<now, config, keyStore, pool, pc, rkey, ret, last, locked, waiting,
                   sync, sched, keysDirty, disk, persist, timer, watcher, admin>>

\* migrateUserCredentials(oldApiKey, newApiKey) to the await of
\* persistIfDirty, or to its return: the entry moves to the new key
MigrateUserCredentials(oldApiKey, newApiKey) ==
    /\ admin.pc \in {"idle", "returned"}
    /\ oldApiKey \in DOMAIN users
    /\ oldApiKey # newApiKey
    /\ LET usrs == [k \in (DOMAIN users \ {oldApiKey}) \cup {newApiKey} |->
                        IF k = newApiKey THEN users[oldApiKey] ELSE users[k]]
           r == persistIfDirty("users", "admin", TRUE, keyStore, config, usrs)
       IN  /\ users' = usrs
           /\ usersDirty' = TRUE
           /\ persist' = r.persist
           /\ admin' = AfterPersist("migrateUserCredentials", newApiKey, r.began)
    /\ UNCHANGED <<now, config, keyStore, pool, pc, rkey, ret, last, locked, waiting,
                   sync, sched, keysDirty, disk, timer, watcher>>

\* POST /api/potluckuser/regenerate-key by the holder of apiKey, to the await
\* inside regenerateKey or to the 404
UserRegenerateKey(apiKey, newKeyId) ==
    /\ admin.pc \in {"idle", "returned"}
    /\ admin.op # "userRegenerateKey"
    /\ newKeyId \in generateApiKey
    /\ LET g == regenerateKey(apiKey, newKeyId)
           r == persistIfDirty("keys", "admin", g.dirty /\ g.result # "null",
                               g.keys, config, users)
       IN  /\ keyStore' = g.keys
           /\ keysDirty' = g.dirty
           /\ persist' = r.persist
           /\ admin' = IF g.result = "null"
                       THEN [op |-> "userRegenerated", pc |-> "returned", key |-> apiKey,
                             result |-> "404", view |-> <<>>]
                       ELSE [AfterPersist("userRegenerateKey", apiKey, r.began) EXCEPT
                                !.view = [oldKey |-> apiKey, newKey |-> newKeyId]]
    /\ UNCHANGED <<now, config, users, pool, pc, rkey, ret, last, locked, waiting,
                   sync, sched, usersDirty, disk, timer, watcher>>

\* the same handler after regenerateKey: migrateUserCredentials(apiKey,
\* result.newKey) to the await of its persistIfDirty, or to the answer
UserMigrate ==
    /\ admin.op = "userRegenerateKey"
    /\ admin.pc = "returned"
    /\ LET oldApiKey == admin.view.oldKey
           newApiKey == admin.view.newKey
           found == oldApiKey \in DOMAIN users
           usrs == IF found
                   THEN [k \in (DOMAIN users \ {oldApiKey}) \cup {newApiKey} |->
                            IF k = newApiKey THEN users[oldApiKey] ELSE users[k]]
                   ELSE users
           r == persistIfDirty("users", "admin", found, keyStore, config, usrs)
       IN  /\ users' = usrs
           /\ usersDirty' = (usersDirty \/ found)
           /\ persist' = r.persist
           /\ admin' = [AfterPersist("userRegenerated", newApiKey, r.began) EXCEPT
                           !.result = IF r.began THEN "none" ELSE "200"]
    /\ UNCHANGED <<now, config, keyStore, pool, pc, rkey, ret, last, locked, waiting,
                   sync, sched, keysDirty, disk, timer, watcher>>

\* removeUserCredential(apiKey, credentialId) to the await of persistIfDirty,
\* or to its return; the bonus of the credential is not touched
RemoveUserCredential(apiKey, credentialId) ==
    /\ admin.pc \in {"idle", "returned"}
    /\ apiKey \in DOMAIN users
    /\ \E i \in 1..Len(users[apiKey].credentials) :
            users[apiKey].credentials[i].id = credentialId
    /\ LET credentials == users[apiKey].credentials
           index == CHOOSE i \in 1..Len(credentials) :
                        /\ credentials[i].id = credentialId
                        /\ \A j \in 1..(i - 1) : credentials[j].id # credentialId
           usrs == [users EXCEPT ![apiKey].credentials =
                        SubSeq(credentials, 1, index - 1)
                        \o SubSeq(credentials, index + 1, Len(credentials))]
           r == persistIfDirty("users", "admin", TRUE, keyStore, config, usrs)
       IN  /\ users' = usrs
           /\ usersDirty' = TRUE
           /\ persist' = r.persist
           /\ admin' = AfterPersist("removeUserCredential", apiKey, r.began)
    /\ UNCHANGED <<now, config, keyStore, pool, pc, rkey, ret, last, locked, waiting,
                   sync, sched, keysDirty, disk, timer, watcher>>

\* getBonusDetails(apiKey): the bonuses that are not expired, each with what
\* is left of it, and their total
getBonusDetails(apiKey) ==
    IF apiKey \notin DOMAIN users
    THEN [bonuses |-> <<>>, totalRemaining |-> 0,
          bonusPerCredential |-> getBonusConfig.bonusPerCredential,
          validityDays |-> getBonusConfig.bonusValidityDays]
    ELSE LET kept == SelectSeq(users[apiKey].credentialBonuses,
                               LAMBDA b : ~isBonusExpired(b))
             bonuses == [i \in 1..Len(kept) |->
                            [credentialId |-> kept[i].credentialId,
                             grantedAt |-> kept[i].grantedAt,
                             expiresAt |-> calculateExpiresAt(kept[i].grantedAt),
                             usedCount |-> kept[i].usedCount,
                             remaining |-> getBonusConfig.bonusPerCredential
                                           - kept[i].usedCount]]
         IN  [bonuses |-> bonuses,
              totalRemaining |-> SumSeq([i \in 1..Len(bonuses) |->
                                            Max(0, bonuses[i].remaining)]),
              bonusPerCredential |-> getBonusConfig.bonusPerCredential,
              validityDays |-> getBonusConfig.bonusValidityDays]

\* a route answers with getBonusDetails(apiKey)
GetBonusDetails(apiKey) ==
    /\ admin.pc \in {"idle", "returned"}
    /\ admin' = [op |-> "getBonusDetails", pc |-> "returned", key |-> apiKey,
                 result |-> "ok", view |-> getBonusDetails(apiKey)]
    /\ UNCHANGED <<now, config, keyStore, users, pool, pc, rkey, ret, last, locked, waiting,
                   sync, sched, keysDirty, usersDirty, disk, persist, timer, watcher>>

\* ------------------------------------------------------ the bulk pass
\* getAllKeyIds: the ids of the key store, listed
getAllKeyIds ==
    LET RECURSIVE List(_)
        List(S) == IF S = {} THEN <<>>
                   ELSE LET k == CHOOSE x \in S : TRUE
                        IN  <<k>> \o List(S \ {k})
    IN  List(DOMAIN keyStore)

\* what POST /api/potluck/keys/apply-bonus holds while it runs: the ids, the
\* position of the tenant in hand, the health answers it has for that tenant,
\* what syncCredentialBonuses returned, and the two counts
ApplyStart(allKeyIds) ==
    [allKeyIds |-> allKeyIds, i |-> 0, results |-> <<>>, bonusSync |-> NoSync,
     totalSynced |-> 0, totalBonusUpdated |-> 0]

\* variant of the loop's catch: the failure of one tenant ends the loop and
\* the answer is sent
applyCatchAbort(view) ==
    [op |-> "applyBonus", pc |-> "returned", key |-> "", result |-> "200",
     view |-> [view EXCEPT !.i = Len(view.allKeyIds) + 1, !.results = <<>>]]

\* the for loop from position `from` on: tenants without a credential are
\* passed over (`continue`), the first one holding a credential is taken in
\* hand up to the await of its first health query; past the last id the
\* answer is sent
applyAdvance(view, from) ==
    LET holding == {j \in from..Len(view.allKeyIds) :
                       Len(getUserCredentials(view.allKeyIds[j])) # 0}
    IN  IF holding = {}
        THEN [op |-> "applyBonus", pc |-> "returned", key |-> "", result |-> "200",
              view |-> [view EXCEPT !.i = Len(view.allKeyIds) + 1, !.results = <<>>]]
        ELSE LET j == CHOOSE x \in holding : \A y \in holding : x <= y
             IN  [op |-> "applyBonus", pc |-> "applying", key |-> view.allKeyIds[j],
                  result |-> "none", view |-> [view EXCEPT !.i = j, !.results = <<>>]]

\* the catch of the loop: the warning is logged, the next tenant follows
applyCatch(view) == applyAdvance(view, view.i + 1)

\* POST /api/potluck/keys/apply-bonus is received
ApplyBonus ==
    /\ admin.pc \in {"idle", "returned"}
    /\ admin' = applyAdvance(ApplyStart(getAllKeyIds), 1)
    /\ UNCHANGED <<now, config, keyStore, users, pool, pc, rkey, ret, last, locked, waiting,
                   sync, sched, keysDirty, usersDirty, disk, persist, timer, watcher>>

\* syncCredentialHealthFromPool settles for the credential awaited: with h,
\* which is pushed, the next credential following or, after the last one,
\* syncCredentialBonuses; or by throwing, which the tenant's catch takes
ApplyCheck(h) ==
    /\ admin.pc = "applying"
    /\ LET view == admin.view
           apiKey == view.allKeyIds[view.i]
           credentials == getUserCredentials(apiKey)
           c == Len(view.results) + 1
       IN  /\ c <= Len(credentials)
           /\ IF h = "throw"
              THEN /\ admin' = applyCatch(view)
                   /\ UNCHANGED <<users, usersDirty>>
              ELSE LET res == Append(view.results,
                                     [id |-> credentials[c].id, isHealthy |-> h,
                                      addedAt |-> credentials[c].addedAt])
                   IN  IF c < Len(credentials)
                       THEN /\ admin' = [admin EXCEPT !.view.results = res]
                            /\ UNCHANGED <<users, usersDirty>>
                       ELSE LET r == syncBonuses(users[apiKey].credentialBonuses, res)
                            IN  /\ users' = [users EXCEPT
                                                ![apiKey].credentialBonuses = r.bonuses]
                                /\ usersDirty' = (usersDirty \/ r.dirty)
                                /\ admin' = [admin EXCEPT
                                       !.pc = "applySynced",
                                       !.view.results = res,
                                       !.view.bonusSync =
                                           [added |-> r.added, removed |-> r.removed,
                                            bonusRemaining |-> r.bonusRemaining]]
    /\ UNCHANGED <<now, config, keyStore, pool, pc, rkey, ret, last, locked, waiting,
                   sync, sched, keysDirty, disk, persist, timer, watcher>>

\* after the await of syncCredentialBonuses: updateBonusRemaining, the
\* counts, and the loop goes on
ApplyFinish ==
    /\ admin.pc = "applySynced"
    /\ LET view == admin.view
           apiKey == view.allKeyIds[view.i]
           counted == [view EXCEPT
                          !.totalSynced = @ + 1,
                          !.totalBonusUpdated =
                              IF view.bonusSync.added > 0 \/ view.bonusSync.removed > 0
                              THEN @ + 1 ELSE @]
           r == updateBonusRemaining(apiKey, view.bonusSync.bonusRemaining)
       IN  /\ keyStore' = r.keys
           /\ keysDirty' = r.dirty
           /\ admin' = applyAdvance(counted, view.i + 1)
    /\ UNCHANGED <<now, config, users, pool, pc, rkey, ret, last, locked, waiting,
                   sync, sched, usersDirty, disk, persist, timer, watcher>>

\* somebody else writes the user store's file: fs.watch reports a change
ExternalEdit(content) ==
    /\ disk[StoreFile("users")] # content
    /\ disk' = [disk EXCEPT ![StoreFile("users")] = content]
    /\ watcher' = [watcher EXCEPT !.events = "edit"]
    /\ UNCHANGED <<now, config, keyStore, users, pool, pc, rkey, ret, last, locked, waiting,
                   sync, sched, keysDirty, usersDirty, persist, timer, admin>>

\* variant: the whole store is taken from the file
hotReloadStore(file) ==
    IF file.kind = "json"
    THEN [config |-> IF "config" \in DOMAIN file.data THEN file.data.config ELSE config,
          users |-> IF "users" \in DOMAIN file.data THEN file.data.users ELSE users]
    ELSE [config |-> config, users |-> users]

\* the watcher's reload: JSON.parse of the file, and userDataStore.config =
\* newData.config when the file has a config that differs from the one in
\* memory; a file that does not parse changes nothing
hotReload(file) ==
    IF file.kind = "json" /\ "config" \in DOMAIN file.data /\ file.data.config # config
    THEN [config |-> file.data.config, users |-> users]
    ELSE [config |-> config, users |-> users]

\* the callback of fs.watch on a 'change' event
WatchEvent ==
    /\ watcher.events # "none"
    /\ IF now - watcher.lastReloadTime < DebounceTicks \/ persist["users"].isWriting
       THEN /\ watcher' = [watcher EXCEPT !.events = "none"]
            /\ UNCHANGED <<config, users>>
       ELSE /\ watcher' = [lastReloadTime |-> now, events |-> "none"]
            /\ config' = hotReload(disk[StoreFile("users")]).config
            /\ users' = hotReload(disk[StoreFile("users")]).users
    /\ UNCHANGED <<now, keyStore, pool, pc, rkey, ret, last, locked, waiting,
                   sync, sched, keysDirty, usersDirty, disk, persist, timer, admin>>

\* ---------------------------------------------------------- initial states
NewKey(dailyLimit) ==
    [name |-> "", enabled |-> TRUE, dailyLimit |-> dailyLimit, todayUsage |-> 0, totalUsage |-> 0,
     lastResetDate |-> getTodayDateString, bonusRemaining |-> 0]

Configs == [defaultDailyLimit : {MaxDaily}, bonusPerCredential : 0..MaxBonus,
            bonusValidityDays : 1..MaxValidity, persistInterval : {DefaultPersistInterval}]

\* a tenant holding c1, or c1 then c2, added at some earlier ticks
CredentialLists ==
    {<<[id |-> "c1", path |-> "p1", addedAt |-> a]>> : a \in 0..MaxAddedAt}
    \cup {<<[id |-> "c1", path |-> "p1", addedAt |-> a[1]],
            [id |-> "c2", path |-> "p2", addedAt |-> a[2]]>> :
            a \in {b \in (0..MaxAddedAt) \X (0..MaxAddedAt) : b[1] <= b[2]}}

\* what every specification starts from: nobody calling, no pass running
Quiet ==
    /\ now = MaxAddedAt
    /\ config \in Configs
    /\ pc = [p \in Procs |-> "idle"]
    /\ rkey = [p \in Procs |-> ""]
    /\ ret = [p \in Procs |-> "none"]
    /\ last = NoRet
    /\ locked = FALSE
    /\ waiting = <<>>
    /\ sync = SyncIdle
    /\ sched = SchedIdle
    /\ keysDirty = FALSE
    /\ usersDirty = FALSE

\* ------------------------------------- the ledger and the health pass
\* one key just created, its tenant's credentials registered, no bonus yet
InitLedger ==
    /\ Quiet
    /\ keyStore = [k \in KeyIds |-> NewKey(MaxDaily)]
    /\ users \in {[k \in KeyIds |-> [credentials |-> cl, credentialBonuses |-> <<>>]] :
                    cl \in CredentialLists}
    /\ pool = [c \in CredIds |-> "null"]
    /\ AtRest

NextLedger ==
    \/ Tick
    \/ \E k \in KeyIds : SyncStart(k)
    \/ \E h \in Health : SyncCheck(h)
    \/ SyncFinish
    \/ \E k \in KeyIds : ConsumeBonus(1, k)
    \/ ConsumeBody(1)
    \/ Release(1)
    \/ ConsumeReturn(1)

SpecLedger == InitLedger /\ [][NextLedger]_vars

\* ------------------------------------------------ the request path
\* every credential of the tenant holds a fresh bonus, as a health pass that
\* found them all healthy leaves it, and the key caches their total
GrantedAll(cl) ==
    [i \in 1..Len(cl) |-> [credentialId |-> cl[i].id, grantedAt |-> cl[i].addedAt,
                           usedCount |-> 0]]

Init ==
    /\ Quiet
    /\ pool = [c \in CredIds |-> "true"]
    /\ users \in {[k \in KeyIds |-> [credentials |-> cl, credentialBonuses |-> GrantedAll(cl)]] :
                    cl \in CredentialLists}
    /\ keyStore \in {[k \in KeyIds |->
                        [NewKey(d) EXCEPT !.bonusRemaining =
                            calculateBonusRemaining(users[k].credentialBonuses, {}, FALSE)]] :
                     d \in 0..MaxDaily}
    /\ AtRest

Next ==
    \/ Tick
    \/ \E k \in KeyIds : ToggleKey(k)
    \/ \E p \in Requesters, apiKey \in ApiKeyInputs : Validate(p, apiKey)
    \/ \E p \in Requesters : IncrementUsage(p)
    \/ \E p \in Requesters : ConsumeBody(p)
    \/ \E p \in Requesters : Release(p)
    \/ \E p \in Requesters : FinishUsage(p)

Spec == Init /\ [][Next]_vars

\* ------------------------------------- concurrent calls of consumeBonus
\* every caller calls consumeBonus once, on a tenant holding one bonus
InitConsume ==
    /\ Quiet
    /\ pool = [c \in CredIds |-> "true"]
    /\ keyStore = [k \in KeyIds |-> NewKey(MaxDaily)]
    /\ users \in {[k \in KeyIds |-> [credentials |-> cl, credentialBonuses |-> GrantedAll(cl)]] :
                    cl \in CredentialLists}
    /\ AtRest

NextConsume ==
    \/ \E p \in Procs, k \in KeyIds : ConsumeBonus(p, k)
    \/ \E p \in Procs : ConsumeBody(p)
    \/ \E p \in Procs : Release(p)

SpecConsume == InitConsume /\ [][NextConsume]_vars

\* ------------------------------------- validateKey and the calendar
\* a key in any state its life can have brought it to; only validateKey and
\* the clock act on it
KeyStates ==
    {[NewKey(d) EXCEPT !.enabled = e, !.todayUsage = u, !.totalUsage = u,
                       !.bonusRemaining = b] :
        e \in BOOLEAN, d \in 0..MaxDaily, u \in 0..MaxDaily, b \in 0..MaxBonus}

InitDaily ==
    /\ Quiet
    /\ pool = [c \in CredIds |-> "null"]
    /\ users = [k \in KeyIds |-> [credentials |-> <<>>, credentialBonuses |-> <<>>]]
    /\ keyStore \in {[k \in KeyIds |-> kd] : kd \in {x \in KeyStates : x.todayUsage <= x.dailyLimit}}
    /\ AtRest

NextDaily ==
    \/ Tick
    \/ \E k \in KeyIds : Validate(1, k)
    \/ RequestFails(1)

SpecDaily == InitDaily /\ [][NextDaily]_vars

\* --------------------------------------------------- the keys looked at
\* a key in any state of its life is validated and looked at as days pass
NextViews ==
    \/ Tick
    \/ \E k \in KeyIds : Validate(1, k)
    \/ RequestFails(1)
    \/ \E k \in AllKeyIds : GetKey(k)
    \/ ListKeys

SpecViews == InitDaily /\ [][NextViews]_vars

\* ----------------------------------------------- persistence of the stores
\* updateConfig calls that set bonusPerCredential alone
FewConfigs ==
    {[defaultDailyLimit |-> Undefined, bonusPerCredential |-> b,
      bonusValidityDays |-> Undefined, persistInterval |-> Undefined] : b \in {0, MaxBonus}}

\* a first start: no file yet, nothing loaded
FirstStart ==
    /\ keyStore = <<>>
    /\ users = <<>>
    /\ disk = [f \in Files |-> NoFile]
    /\ persist = [s \in Stores |-> NoPersist]
    /\ timer = [keys |-> config.persistInterval, users |-> config.persistInterval,
                current |-> config.persistInterval]
    /\ watcher = NoEvents
    /\ admin = Loading

\* keys are created, toggled and deleted and the config is updated while the
\* timers fire, writes fail and the process dies
InitPersist ==
    /\ Quiet
    /\ config = DEFAULT_CONFIG
    /\ pool = [c \in CredIds |-> "null"]
    /\ \/ /\ users = [k \in KeyIds |-> [credentials |-> <<>>, credentialBonuses |-> <<>>]]
          /\ keyStore = [k \in KeyIds |-> NewKey(config.defaultDailyLimit)]
          /\ AtRest
       \/ FirstStart

NextPersist ==
    \/ \E k \in KeyIds : CreateKey(k)
    \/ \E k \in KeyIds : DeleteKey(k)
    \/ \E k \in KeyIds : ToggleKey(k)
    \/ \E newConfig \in FewConfigs : UpdateConfig(newConfig)
    \/ \E s \in Stores : TimerTick(s)
    \/ \E s \in Stores : WriteChunk(s)
    \/ \E s \in Stores : WriteDone(s)
    \/ \E s \in Stores : RenameDone(s)
    \/ \E s \in Stores : WriteFail(s)
    \/ \E s \in Stores : EnsureLoaded(s)
    \/ Crash

SpecPersist == InitPersist /\ [][NextPersist]_vars

\* ------------------------------------------------ starting on any files
\* the files are damaged behind the process's back, the process dies and is
\* started again; keys are created and the config is updated
InitLoad ==
    /\ Quiet
    /\ config = [DEFAULT_CONFIG EXCEPT !.bonusPerCredential = 0]
    /\ pool = [c \in CredIds |-> "null"]
    /\ users = [k \in KeyIds |-> [credentials |-> <<>>, credentialBonuses |-> <<>>]]
    /\ keyStore = [k \in KeyIds |-> NewKey(config.defaultDailyLimit)]
    /\ AtRest

NextLoad ==
    \/ \E s \in Stores, how \in Damages : DamageFile(s, how)
    \/ Crash
    \/ \E s \in Stores : EnsureLoaded(s)
    \/ \E k \in AllKeyIds : CreateKey(k)
    \/ \E newConfig \in FewConfigs : UpdateConfig(newConfig)
    \/ \E s \in Stores : WriteDone(s)
    \/ \E s \in Stores : RenameDone(s)

SpecLoad == InitLoad /\ [][NextLoad]_vars

\* ------------------------------------------------------ config updates
\* the arguments of updateConfig and the bodies of the PUT: each field left
\* out, too small, or at a value the code accepts, one or two fields given
NewConfigs ==
    {newConfig \in [defaultDailyLimit : {Undefined, 0, MaxDaily + 1},
                    bonusPerCredential : {Undefined, -1, 0, MaxBonus},
                    bonusValidityDays : {Undefined, 0, MaxValidity + 1},
                    persistInterval : {Undefined, MinPersistInterval - 1,
                                       MinPersistInterval}] :
        Cardinality({f \in DOMAIN newConfig : newConfig[f] # Undefined}) \in {1, 2}}

\* the config is updated by direct calls and by PUT requests while the timer
\* of the user store fires and writes fail
InitConfig ==
    /\ Quiet
    /\ config = DEFAULT_CONFIG
    /\ pool = [c \in CredIds |-> "null"]
    /\ users = [k \in KeyIds |-> [credentials |-> <<>>, credentialBonuses |-> <<>>]]
    /\ keyStore = [k \in KeyIds |-> NewKey(config.defaultDailyLimit)]
    /\ AtRest

NextConfig ==
    \/ \E newConfig \in NewConfigs : UpdateConfig(newConfig)
    \/ \E body \in NewConfigs : PutConfig(body)
    \/ TimerTick("users")
    \/ WriteDone("users")
    \/ RenameDone("users")
    \/ WriteFail("users")

SpecConfig == InitConfig /\ [][NextConfig]_vars

\* ------------------------------------------------- credentials of tenants
\* tenants add credential paths, again and again, as time passes
InitCreds ==
    /\ Quiet
    /\ config = DEFAULT_CONFIG
    /\ pool = [c \in CredIds |-> "null"]
    /\ users = <<>>
    /\ keyStore = [k \in AllKeyIds |-> NewKey(config.defaultDailyLimit)]
    /\ AtRest

NextCreds ==
    \/ Tick
    \/ \E k \in AllKeyIds, path \in Paths : AddUserCredential(k, path)
    \/ TimerTick("users")
    \/ WriteDone("users")
    \/ RenameDone("users")
    \/ WriteFail("users")

SpecCreds == InitCreds /\ [][NextCreds]_vars

\* ------------------------------------------------- the grants of a tenant
\* bonuses are granted, revoked, reconciled and consumed, the tenant moves
\* to another key, time passes; the data directory takes no write, so that
\* every flush fails and the file stays as it was
InitGrant ==
    /\ Quiet
    /\ config = DEFAULT_CONFIG
    /\ pool = [c \in CredIds |-> "null"]
    /\ keyStore = [k \in KeyIds |-> NewKey(MaxDaily)]
    /\ users = [k \in KeyIds |->
                    [credentials |-> <<[id |-> "c1", path |-> "p1", addedAt |-> MaxAddedAt]>>,
                     credentialBonuses |-> <<>>]]
    /\ AtRest

\* the keys whose tenant holds a credential
Tenants == {k \in DOMAIN users : users[k].credentials # <<>>}

NextGrant ==
    \/ Tick
    \/ \E k \in Tenants : AddCredentialBonus(k, "c1")
    \/ \E k \in Tenants : RemoveCredentialBonus(k, "c1")
    \/ \E k \in Tenants : SyncStart(k)
    \/ \E h \in Health : SyncCheck(h)
    \/ SyncFinish
    \/ \E k \in Tenants : ConsumeBonus(1, k)
    \/ ConsumeBody(1)
    \/ Release(1)
    \/ ConsumeReturn(1)
    \/ \E k \in Tenants, n \in AllKeyIds : MigrateUserCredentials(k, n)
    \/ WriteFail("users")

SpecGrant == InitGrant /\ [][NextGrant]_vars

\* ------------------------------------------------- what a bonus has left
\* a tenant whose two credentials hold fresh bonuses consumes them, the bonus per
\* credential is changed, the details are asked for
InitDetails ==
    /\ Quiet
    /\ config = DEFAULT_CONFIG
    /\ pool = [c \in CredIds |-> "true"]
    /\ keyStore = [k \in KeyIds |-> NewKey(MaxDaily)]
    /\ users \in {[k \in KeyIds |-> [credentials |-> cl, credentialBonuses |-> GrantedAll(cl)]] :
                    cl \in {l \in CredentialLists : Len(l) = 2 /\ l[1].addedAt < l[2].addedAt}}
    /\ AtRest

NextDetails ==
    \/ Tick
    \/ \E k \in KeyIds : ConsumeBonus(1, k)
    \/ ConsumeBody(1)
    \/ Release(1)
    \/ ConsumeReturn(1)
    \/ \E newConfig \in FewConfigs : UpdateConfig(newConfig)
    \/ \E k \in KeyIds : GetBonusDetails(k)
    \/ WriteDone("users")
    \/ RenameDone("users")
    \/ WriteFail("users")

SpecDetails == InitDetails /\ [][NextDetails]_vars

\* ------------------------------------------- a credential is taken away
\* a tenant whose credentials hold fresh bonuses gives credentials up while
\* no pass is running; passes for the tenant and passes over all keys follow,
\* one at a time
InitRemove ==
    /\ Quiet
    /\ config = DEFAULT_CONFIG
    /\ pool = [c \in CredIds |-> "true"]
    /\ users \in {[k \in KeyIds |-> [credentials |-> cl, credentialBonuses |-> GrantedAll(cl)]] :
                    cl \in CredentialLists}
    /\ keyStore = [k \in AllKeyIds |->
                      [NewKey(MaxDaily) EXCEPT !.bonusRemaining =
                          IF k \in DOMAIN users
                          THEN calculateBonusRemaining(users[k].credentialBonuses, {}, FALSE)
                          ELSE 0]]
    /\ AtRest

NextRemove ==
    \/ \E k \in KeyIds, c \in CredIds : sync.pc = "idle" /\ RemoveUserCredential(k, c)
    \/ \E k \in KeyIds : admin.pc \in {"idle", "returned"} /\ SyncStart(k)
    \/ \E h \in Health : SyncCheck(h)
    \/ SyncFinish
    \/ sync.pc = "idle" /\ ApplyBonus
    \/ \E h \in Health : ApplyCheck(h)
    \/ ApplyFinish
    \/ WriteDone("users")
    \/ RenameDone("users")

SpecRemove == InitRemove /\ [][NextRemove]_vars

\* ------------------------------------------------- the keys managed
\* two keys, one of them used; keys are deleted, renamed, limited, toggled,
\* reset and regenerated, by ids the table has and ids it has not; the data
\* directory takes no write, so that every flush fails
KeyCallIds == {"maki_k1", "maki_k3"}

InitKeys ==
    /\ Quiet
    /\ config = DEFAULT_CONFIG
    /\ pool = [c \in CredIds |-> "null"]
    /\ users = <<>>
    /\ keyStore = [k \in AllKeyIds |->
                      IF k \in KeyIds
                      THEN [NewKey(MaxDaily) EXCEPT !.todayUsage = MaxDaily,
                                                    !.totalUsage = MaxDaily,
                                                    !.bonusRemaining = MaxBonus]
                      ELSE NewKey(MaxDaily)]
    /\ AtRest

NextKeys ==
    \/ \E k \in KeyCallIds : DeleteKey(k)
    \/ \E k \in KeyCallIds : ToggleKey(k)
    \/ \E k \in KeyCallIds, d \in 0..MaxDaily : UpdateKeyLimit(k, d)
    \/ \E k \in KeyCallIds : ResetKeyUsage(k)
    \/ \E k \in KeyCallIds, n \in Names : UpdateKeyName(k, n)
    \/ \E k \in KeyCallIds, n \in RandomKeyIds : RegenerateKey(k, n)
    \/ WriteFail("keys")

SpecKeys == InitKeys /\ [][NextKeys]_vars

\* -------------------------------------------------------- the hot reload
\* updateConfig calls that set persistInterval alone
IntervalConfigs ==
    {[defaultDailyLimit |-> Undefined, bonusPerCredential |-> Undefined,
      bonusValidityDays |-> Undefined, persistInterval |-> i] :
        i \in {MinPersistInterval, DefaultPersistInterval}}

\* what somebody may leave in the user store's file: a text that does not
\* parse, a document without config, documents with a config of their own
EditedFiles ==
    {Partial, Json([users |-> <<>>])}
    \cup {Json([config |-> [DEFAULT_CONFIG EXCEPT !.persistInterval = i], users |-> <<>>]) :
            i \in {MinPersistInterval, DefaultPersistInterval}}

\* the config is updated and the file is edited while tenants appear, the
\* timer fires and the watcher reloads
InitReload ==
    /\ Quiet
    /\ config = DEFAULT_CONFIG
    /\ pool = [c \in CredIds |-> "null"]
    /\ users = [k \in KeyIds |-> [credentials |-> <<>>, credentialBonuses |-> <<>>]]
    /\ keyStore = [k \in KeyIds |-> NewKey(config.defaultDailyLimit)]
    /\ AtRest

NextReload ==
    \/ Tick
    \/ \E newConfig \in IntervalConfigs : UpdateConfig(newConfig)
    \/ \E k \in AllKeyIds : EnsureUserData(k)
    \/ TimerTick("users")
    \/ WriteDone("users")
    \/ RenameDone("users")
    \/ WriteFail("users")
    \/ \E content \in EditedFiles : ExternalEdit(content)
    \/ WatchEvent

SpecReload == InitReload /\ [][NextReload]_vars

\* ------------------------------------------- the scheduler on its own
\* the ledger and the key's cache agree with the pool, which finds every
\* credential healthy or every credential unhealthy; from then on only the
\* pool and the scheduler act
InitSched ==
    /\ Quiet
    /\ \E h \in {"true", "false"} :
         /\ pool = [c \in CredIds |-> h]
         /\ users \in {[k \in KeyIds |->
                          [credentials |-> cl,
                           credentialBonuses |-> IF h = "true" THEN GrantedAll(cl) ELSE <<>>]] :
                        cl \in CredentialLists}
    /\ keyStore = [k \in KeyIds |->
                      [NewKey(MaxDaily) EXCEPT !.bonusRemaining =
                          calculateBonusRemaining(users[k].credentialBonuses, {}, FALSE)]]
    /\ AtRest

NextSched ==
    \/ \E k \in KeyIds, i \in 1..Cardinality(CredIds), h \in {"true", "false"} : SetHealth(k, i, h)
    \/ SchedFire
    \/ SchedCheck

\* the interval timer keeps firing and every await of the pass returns
SpecSched ==
    InitSched /\ [][NextSched]_vars /\ WF_vars(SchedFire) /\ WF_vars(SchedCheck)

\* --------------------------------------------- the scheduler started, stopped
\* the plugin starts and stops the scheduler, the timers fire, the pool
\* changes its mind, and every await of a pass returns
InitStop ==
    /\ Quiet
    /\ config = DEFAULT_CONFIG
    /\ pool = [c \in CredIds |-> "true"]
    /\ users \in {[k \in KeyIds |-> [credentials |-> cl, credentialBonuses |-> GrantedAll(cl)]] :
                    cl \in CredentialLists}
    /\ keyStore = [k \in KeyIds |-> NewKey(MaxDaily)]
    /\ disk = [f \in Files |->
                 IF f = StoreFile("keys") THEN Stringify("keys", keyStore, config, users)
                 ELSE IF f = StoreFile("users") THEN Stringify("users", keyStore, config, users)
                 ELSE NoFile]
    /\ persist = [s \in Stores |-> NoPersist]
    /\ timer = [f \in {"keys", "users", "current"} \cup DOMAIN NotScheduled |->
                  IF f \in DOMAIN NotScheduled THEN NotScheduled[f]
                  ELSE config.persistInterval]
    /\ watcher = NoEvents
    /\ admin = AdminIdle

NextStop ==
    \/ StartHealthCheckScheduler
    \/ StopHealthCheckScheduler
    \/ InitialPass
    \/ IntervalPass
    \/ SchedCheck
    \/ \E k \in KeyIds, i \in 1..Cardinality(CredIds), h \in {"true", "false"} : SetHealth(k, i, h)

SpecStop == InitStop /\ [][NextStop]_vars /\ WF_vars(SchedCheck)

\* ------------------------------------------------- passes over every tenant
\* two tenants, each with no, one or two credentials and with the bonuses of
\* its credentials granted or not yet; passes over all keys and passes of the
\* scheduler run, and a health query answers or throws
BatchLists == {<<>>} \cup {cl \in CredentialLists : \A i \in 1..Len(cl) : cl[i].addedAt = 0}

InitBatch ==
    /\ Quiet
    /\ config = DEFAULT_CONFIG
    /\ pool \in [CredIds -> {"true", "false"}]
    /\ users \in {[k \in AllKeyIds |->
                     [credentials |-> cl[k],
                      credentialBonuses |-> IF k \in g THEN GrantedAll(cl[k]) ELSE <<>>]] :
                    cl \in [AllKeyIds -> BatchLists], g \in SUBSET KeyIds}
    /\ keyStore = [k \in AllKeyIds |->
                      [NewKey(MaxDaily) EXCEPT !.bonusRemaining =
                          calculateBonusRemaining(users[k].credentialBonuses, {}, FALSE)]]
    /\ AtRest

NextBatch ==
    \/ ApplyBonus
    \/ \E h \in Health \cup {"throw"} : ApplyCheck(h)
    \/ ApplyFinish
    \/ SchedFire
    \/ SchedCheck
    \/ SchedThrow

SpecBatch == InitBatch /\ [][NextBatch]_vars

\* ------------------------------------------------------- callers at the lock
\* one caller more than the request path has call consumeBonus for the one
\* tenant; a body returns or throws; every body that was entered finishes and
\* every finally block runs
Callers == 1..(NProc + 1)

InitMutex ==
    /\ now = MaxAddedAt
    /\ config = DEFAULT_CONFIG
    /\ pc = [p \in Callers |-> "idle"]
    /\ rkey = [p \in Callers |-> ""]
    /\ ret = [p \in Callers |-> "none"]
    /\ last = NoRet
    /\ locked = FALSE
    /\ waiting = <<>>
    /\ sync = SyncIdle
    /\ sched = SchedIdle
    /\ keysDirty = FALSE
    /\ usersDirty = FALSE
    /\ admin = AdminIdle
    /\ pool = [c \in CredIds |-> "true"]
    /\ users \in {[k \in KeyIds |-> [credentials |-> cl, credentialBonuses |-> GrantedAll(cl)]] :
                    cl \in {bl \in BatchLists : Len(bl) = 1}}
    /\ keyStore = [k \in KeyIds |->
                      [NewKey(MaxDaily) EXCEPT !.bonusRemaining =
                          calculateBonusRemaining(users[k].credentialBonuses, {}, FALSE)]]
    /\ AtRest

NextMutex ==
    \/ \E p \in Callers, k \in KeyIds : ConsumeBonus(p, k)
    \/ \E p \in Callers : ConsumeBody(p)
    \/ \E p \in Callers : BodyThrows(p)
    \/ \E p \in Callers : Release(p)
    \/ \E p \in Callers : ConsumeReturn(p)

SpecMutex ==
    /\ InitMutex
    /\ [][NextMutex]_vars
    /\ \A p \in Callers : WF_vars(ConsumeBody(p) \/ BodyThrows(p))
    /\ \A p \in Callers : WF_vars(Release(p))

\* ------------------------------------------------- the cache of a key
\* requests are validated and recorded while updateBonusRemaining is called
\* with any number, for the key and for an id the table has not; the timer
\* of the key store fires and the data directory takes no write
BonusInputs == (-1)..MaxBonus

InitCache ==
    /\ Quiet
    /\ config = DEFAULT_CONFIG
    /\ pool = [c \in CredIds |-> "true"]
    /\ users \in {[k \in KeyIds |-> [credentials |-> cl, credentialBonuses |-> GrantedAll(cl)]] :
                    cl \in {bl \in BatchLists : Len(bl) = 1}}
    /\ keyStore = [k \in KeyIds |->
                      [NewKey(0) EXCEPT !.bonusRemaining =
                          calculateBonusRemaining(users[k].credentialBonuses, {}, FALSE)]]
    /\ AtRest

NextCache ==
    \/ \E p \in Requesters, k \in KeyIds : Validate(p, k)
    \/ \E p \in Requesters : IncrementUsage(p)
    \/ \E p \in Requesters : ConsumeBody(p)
    \/ \E p \in Requesters : Release(p)
    \/ \E p \in Requesters : FinishUsage(p)
    \/ \E k \in KeyCallIds, n \in BonusInputs : UpdateBonusRemaining(k, n)
    \/ TimerTick("keys")
    \/ WriteFail("keys")

SpecCache == InitCache /\ [][NextCache]_vars

\* ------------------------------------------------- the process is told to end
\* keys are toggled and created while the timer of the key store fires; a
\* signal ends the process, which is started again on the files it left
Running == admin.pc # "exited"

InitExit ==
    /\ Quiet
    /\ config = DEFAULT_CONFIG
    /\ pool = [c \in CredIds |-> "null"]
    /\ users = <<>>
    /\ keyStore = [k \in KeyIds |-> NewKey(MaxDaily)]
    /\ AtRest

NextExit ==
    \/ \E k \in KeyIds : Running /\ ToggleKey(k)
    \/ \E k \in AllKeyIds : Running /\ CreateKey(k)
    \/ Running /\ TimerTick("keys")
    \/ Running /\ WriteDone("keys")
    \/ Running /\ RenameDone("keys")
    \/ Signal
    \/ ~Running /\ Crash

SpecExit == InitExit /\ [][NextExit]_vars

\* ------------------------------------------------- flushes in the background
\* keys are toggled and bonuses granted and taken back, none of which
\* flushes; the timers of both stores fire and every write succeeds
InitFlush ==
    /\ Quiet
    /\ config = DEFAULT_CONFIG
    /\ pool = [c \in CredIds |-> "true"]
    /\ users = [k \in KeyIds |-> [credentials |-> <<[id |-> "c1", path |-> "p1", addedAt |-> 0]>>,
                                  credentialBonuses |-> <<>>]]
    /\ keyStore = [k \in AllKeyIds |-> NewKey(MaxDaily)]
    /\ AtRest

NextFlush ==
    \/ \E k \in AllKeyIds : ToggleKey(k)
    \/ \E k \in KeyIds : AddCredentialBonus(k, "c1")
    \/ \E k \in KeyIds : RemoveCredentialBonus(k, "c1")
    \/ \E s \in Stores : TimerTick(s)
    \/ \E s \in Stores : WriteDone(s)
    \/ \E s \in Stores : RenameDone(s)

SpecFlush == InitFlush /\ [][NextFlush]_vars

\* ------------------------------------------------- requests during a pass
\* the key's daily limit is used up and its tenant holds a fresh bonus, which
\* the key caches; requests are validated and recorded while passes for the
\* tenant run, every await letting the others go on
NextRace ==
    \/ \E p \in Requesters, k \in KeyIds : Validate(p, k)
    \/ \E p \in Requesters : IncrementUsage(p)
    \/ \E p \in Requesters : ConsumeBody(p)
    \/ \E p \in Requesters : Release(p)
    \/ \E p \in Requesters : FinishUsage(p)
    \/ \E k \in KeyIds : SyncStart(k)
    \/ \E h \in Health : SyncCheck(h)
    \/ SyncFinish

SpecRace == InitCache /\ [][NextRace]_vars

\* ------------------------------------------------- requests side by side
\* requests on one key are validated and recorded, content being generated
\* in between; the clock stands still and nobody manages the key
NextAdmit ==
    \/ \E p \in Requesters, k \in KeyIds : Validate(p, k)
    \/ \E p \in Requesters : IncrementUsage(p)
    \/ \E p \in Requesters : ConsumeBody(p)
    \/ \E p \in Requesters : Release(p)
    \/ \E p \in Requesters : FinishUsage(p)

SpecAdmit == Init /\ [][NextAdmit]_vars

\* ------------------------------------------------- keys and their tenants
\* a key whose tenant holds a credential and its bonus is deleted or
\* regenerated, by the administrator or by its holder; keys are created; the
\* handler of the holder's route runs to its answer before another call
\* begins, and every write succeeds
InitTenants ==
    /\ Quiet
    /\ config = DEFAULT_CONFIG
    /\ pool = [c \in CredIds |-> "true"]
    /\ users \in {[k \in KeyIds |-> [credentials |-> cl, credentialBonuses |-> GrantedAll(cl)]] :
                    cl \in {bl \in BatchLists : Len(bl) = 1}}
    /\ keyStore = [k \in KeyIds |->
                      [NewKey(MaxDaily) EXCEPT !.bonusRemaining =
                          calculateBonusRemaining(users[k].credentialBonuses, {}, FALSE)]]
    /\ AtRest

RouteDone == admin.op # "userRegenerateKey"

NextTenants ==
    \/ \E k \in AllKeyIds : RouteDone /\ DeleteKey(k)
    \/ \E k \in AllKeyIds, n \in RandomKeyIds : RouteDone /\ RegenerateKey(k, n)
    \/ \E k \in AllKeyIds, n \in RandomKeyIds : UserRegenerateKey(k, n)
    \/ UserMigrate
    \/ \E k \in AllKeyIds : RouteDone /\ CreateKey(k)
    \/ \E s \in Stores : WriteDone(s)
    \/ \E s \in Stores : RenameDone(s)

SpecTenants == InitTenants /\ [][NextTenants]_vars

\* ------------------------------------------------- ids for new keys
\* generateApiKey is called on a table of one or two keys, crypto.randomBytes
\* giving, turn by turn, the id of a key of the table or an id it has not
InitGenerate ==
    /\ Quiet
    /\ config = DEFAULT_CONFIG
    /\ pool = [c \in CredIds |-> "null"]
    /\ users = <<>>
    /\ keyStore \in {[k \in ids |-> NewKey(MaxDaily)] : ids \in {KeyIds, AllKeyIds}}
    /\ AtRest

NextGenerate ==
    \E randomBytes \in [1..maxAttempts -> KeyCallIds] : GenerateApiKey(randomBytes)

SpecGenerate == InitGenerate /\ [][NextGenerate]_vars

\* =================================================================== claims
\* the ledger's rules restated from the configuration alone
Capacity == config.bonusPerCredential

Expired(bonus) == now > bonus.grantedAt + config.bonusValidityDays * DayTicks

Left(bonus) == IF Expired(bonus) THEN 0 ELSE Max(0, Capacity - bonus.usedCount)

Eligible(bonuses) ==
    {i \in 1..Len(bonuses) : ~Expired(bonuses[i]) /\ bonuses[i].usedCount < Capacity}

\* caller p's consumeBonus runs its body in this step
ConsumeStep(p) == pc[p] = "granted" /\ pc'[p] = "holding" /\ rkey[p] \in DOMAIN users

\* syncCredentialBonuses runs in this step
ReconcileStep == sync.pc # "synced" /\ sync'.pc = "synced"

\* C1: when N callers have each called consumeBonus once for a tenant holding
\* a single non-expired bonus of capacity C that was unused, exactly min(N, C)
\* of them got true and the bonus's usedCount is min(N, C), in whatever order
\* the calls interleaved; on the way the number of true answers equals
\* usedCount.
C1_ConcurrentConsumeExact ==
    \A k \in DOMAIN users :
        LET bonuses == users[k].credentialBonuses
            succeeded == Cardinality({p \in Procs : ret[p] = "true"})
        IN  (Len(bonuses) = 1 /\ ~Expired(bonuses[1]))
            => /\ bonuses[1].usedCount = succeeded
               /\ (\A p \in Procs : pc[p] = "released" /\ rkey[p] = k)
                  => /\ succeeded = Min(NProc, Capacity)
                     /\ bonuses[1].usedCount = Min(NProc, Capacity)

\* C1 witness: all the calls are over, the capacity was smaller than the
\* number of callers, one got true and another false
C1_Witness ==
    /\ \A p \in Procs : pc[p] = "released"
    /\ \E k \in DOMAIN users : Len(users[k].credentialBonuses) = 1
    /\ Capacity > 0 /\ Capacity < NProc
    /\ \E p, q \in Procs : ret[p] = "true" /\ ret[q] = "false"

\* C2: consumeBonus increments exactly one bonus, a non-expired one with
\* usedCount below the capacity whose grantedAt is the smallest among those,
\* and answers true; with no such bonus it changes nothing and answers
\* false.  So a later bonus is touched only when every earlier non-expired
\* one is used up.
C2_FifoConsume ==
    [][\A p \in Procs : ConsumeStep(p) =>
          LET old == users[rkey[p]].credentialBonuses
              new == users'[rkey[p]].credentialBonuses
          IN  /\ IF Eligible(old) = {}
                 THEN new = old /\ ret'[p] = "false"
                 ELSE /\ ret'[p] = "true"
                      /\ \E i \in Eligible(old) :
                            /\ \A j \in Eligible(old) : old[i].grantedAt <= old[j].grantedAt
                            /\ new = [old EXCEPT ![i].usedCount = @ + 1]
              /\ Len(new) = Len(old)
              /\ \A i, j \in 1..Len(old) :
                    (/\ ~Expired(old[i]) /\ ~Expired(old[j])
                     /\ old[i].grantedAt < old[j].grantedAt
                     /\ new[j].usedCount # old[j].usedCount)
                    => old[i].usedCount >= Capacity]_vars

\* C2 witness: the older bonus stands after the younger one in the array and
\* consumeBonus has just taken from the older one, the younger one untouched
C2_Witness ==
    /\ pc[1] = "holding" /\ ret[1] = "true"
    /\ \E k \in DOMAIN users :
         LET bonuses == users[k].credentialBonuses
         IN  /\ Len(bonuses) = 2
             /\ bonuses[2].grantedAt < bonuses[1].grantedAt
             /\ ~Expired(bonuses[1]) /\ ~Expired(bonuses[2])
             /\ bonuses[2].usedCount > 0
             /\ bonuses[1].usedCount = 0

\* C10: a bonus with now > grantedAt + bonusValidityDays (in days) counts 0
\* in calculateBonusRemaining and in the bonusRemaining syncCredentialBonuses
\* returns, whatever its usedCount; consumeBonus never increments it; and
\* consumeBonus answers false to a tenant all of whose bonuses are expired.
C10_ExpiredExcluded ==
    /\ [](\A k \in DOMAIN users :
            LET bonuses == users[k].credentialBonuses
            IN  calculateBonusRemaining(bonuses, {}, FALSE)
                = SumSeq([i \in 1..Len(bonuses) |-> Left(bonuses[i])]))
    /\ [][/\ \A p \in Procs : ConsumeStep(p) =>
               LET old == users[rkey[p]].credentialBonuses
                   new == users'[rkey[p]].credentialBonuses
               IN  /\ Len(new) = Len(old)
                   /\ \A i \in 1..Len(old) : Expired(old[i]) => new[i] = old[i]
                   /\ (\A i \in 1..Len(old) : Expired(old[i]))
                      => ret'[p] = "false" /\ new = old
          /\ ReconcileStep =>
               LET old == ensureUserData(sync'.key)[sync'.key].credentialBonuses
                   healthy == {sync'.results[i].id : i \in
                                 {j \in 1..Len(sync'.results) :
                                     sync'.results[j].isHealthy = "true"}}
                   live == SelectSeq(old, LAMBDA b : b.credentialId \in healthy)
                   fresh == SelectSeq(sync'.results,
                                LAMBDA r : r.isHealthy = "true" /\ ~hasBonusFor(old, r.id))
               IN  sync'.bonusSync.bonusRemaining
                   = SumSeq([i \in 1..Len(live) |-> Left(live[i])])
                     + SumSeq([i \in 1..Len(fresh) |->
                                 Left([grantedAt |-> fresh[i].addedAt, usedCount |-> 0])])
         ]_vars

\* C10 witness: the tenant's only bonus is expired with capacity left, and
\* consumeBonus has just answered false
C10_Witness ==
    /\ pc[1] = "holding" /\ ret[1] = "false"
    /\ \E k \in DOMAIN users :
         LET bonuses == users[k].credentialBonuses
         IN  /\ Len(bonuses) = 1
             /\ Expired(bonuses[1])
             /\ bonuses[1].usedCount < Capacity

\* C7: syncCredentialBonuses called again at once with the same results, the
\* clock and the configuration unchanged, returns added = 0 and removed = 0
\* and leaves the tenant's bonuses as the first call left them, also when a
\* healthy credential's addedAt is older than the validity window.
C7_ReconcileIdempotent ==
    [][ReconcileStep =>
          LET bonuses == users'[sync'.key].credentialBonuses
              again == syncBonuses(bonuses, sync'.results)
          IN  /\ again.added = 0
              /\ again.removed = 0
              /\ again.bonuses = bonuses]_vars

\* C8: a credential whose health result is null keeps what it had through
\* syncCredentialBonuses: no bonus is created for it, and a non-expired bonus
\* it holds stays, with its usedCount and grantedAt.
C8_NullKeepsStatusQuo ==
    [][ReconcileStep =>
          LET old == ensureUserData(sync'.key)[sync'.key].credentialBonuses
              new == users'[sync'.key].credentialBonuses
          IN  \A i \in 1..Len(sync'.results) :
                sync'.results[i].isHealthy = "null" =>
                  /\ ~hasBonusFor(old, sync'.results[i].id)
                     => ~hasBonusFor(new, sync'.results[i].id)
                  /\ \A j \in 1..Len(old) :
                        (old[j].credentialId = sync'.results[i].id /\ ~Expired(old[j]))
                        => \E m \in 1..Len(new) : new[m] = old[j]]_vars

\* validateKey is called on key k in this step
ValidateStep(k) ==
    /\ now' = now
    /\ last'.op = "validateKey" /\ last'.key = k
    /\ \E p \in Procs : pc[p] = "idle" /\ pc' \in {pc, [pc EXCEPT ![p] = "admitted"]}
    /\ k \in DOMAIN keyStore => keyStore'[k].enabled = keyStore[k].enabled
    /\ UNCHANGED durable
    /\ UNCHANGED <<users, pool, sync, sched>>

Today == now \div DayTicks

\* todayUsage as validateKey sees it, after the lazy reset
UsageToday(keyData) == IF keyData.lastResetDate = Today THEN keyData.todayUsage ELSE 0

\* C3: for an enabled key, validateKey admits on the daily quota, useBonus
\* false, while todayUsage after the lazy reset is below dailyLimit, whatever
\* bonusRemaining is; at todayUsage = dailyLimit it admits with useBonus true
\* and the cached bonusRemaining when that is positive, and answers
\* quota_exceeded when it is 0.
C3_AdmissionPrecedence ==
    \A k \in DOMAIN keyStore :
        LET keyData == keyStore[k]
            v == validateKey(k).ret
        IN  keyData.enabled =>
              /\ UsageToday(keyData) < keyData.dailyLimit
                 => v.ok /\ ~v.bonus
              /\ (UsageToday(keyData) = keyData.dailyLimit /\ keyData.bonusRemaining > 0)
                 => v.ok /\ v.bonus /\ v.n = keyData.bonusRemaining
              /\ (UsageToday(keyData) = keyData.dailyLimit /\ keyData.bonusRemaining = 0)
                 => ~v.ok /\ v.reason = "quota_exceeded"

\* C3 witness: a request has just been admitted on the bonus, its key's daily
\* quota of at least one request being used up
C3_Witness ==
    /\ last.op = "validateKey" /\ last.ok /\ last.bonus /\ last.n > 0
    /\ last.key \in DOMAIN keyStore
    /\ keyStore[last.key].dailyLimit > 0
    /\ keyStore[last.key].todayUsage = keyStore[last.key].dailyLimit
    /\ keyStore[last.key].lastResetDate = Today
    /\ \E p \in Procs : pc[p] = "admitted" /\ rkey[p] = last.key

\* C4: for an enabled key with dailyLimit D whose tenant holds one non-expired
\* bonus of capacity B, cached as bonusRemaining = B, on the day it started
\* and with no usage being recorded at the moment: once D usages are recorded
\* validateKey admits with useBonus true and bonusRemaining B; once D + B are
\* recorded validateKey answers quota_exceeded and the bonus's usedCount is B.
C4_QuotaDegradation ==
    \A k \in DOMAIN keyStore :
        LET keyData == keyStore[k]
            bonuses == users[k].credentialBonuses
            v == validateKey(k).ret
        IN  (/\ keyData.enabled
             /\ Today = MaxAddedAt \div DayTicks
             /\ Len(bonuses) = 1 /\ ~Expired(bonuses[1])
             /\ InFlight(k) = 0)
            => /\ (keyData.totalUsage = keyData.dailyLimit /\ Capacity > 0)
                  => v.ok /\ v.bonus /\ v.n = Capacity
               /\ keyData.totalUsage = keyData.dailyLimit + Capacity
                  => /\ ~v.ok /\ v.reason = "quota_exceeded"
                     /\ bonuses[1].usedCount = Capacity

\* C4 witness: D > 0 daily and B > 0 bonus usages are recorded, the bonus is
\* used up and validateKey has just answered quota_exceeded
C4_Witness ==
    /\ last.op = "validateKey" /\ ~last.ok /\ last.reason = "quota_exceeded"
    /\ last.key \in DOMAIN keyStore
    /\ Capacity > 0
    /\ Today = MaxAddedAt \div DayTicks
    /\ InFlight(last.key) = 0
    /\ LET keyData == keyStore[last.key]
           bonuses == users[last.key].credentialBonuses
       IN  /\ keyData.enabled
           /\ keyData.dailyLimit > 0
           /\ keyData.totalUsage = keyData.dailyLimit + Capacity
           /\ Len(bonuses) = 1 /\ ~Expired(bonuses[1])
           /\ bonuses[1].usedCount = Capacity

\* C5: when incrementUsage took the bonus path and consumeBonus answered
\* false, incrementUsage returns the no-quota outcome: it neither reports
\* usedBonus nor counts the request in totalUsage.
C5_FailedConsumeNotCounted ==
    [][\A p \in Procs :
          (/\ pc[p] = "released" /\ ret[p] = "false" /\ pc'[p] = "idle"
           /\ rkey[p] \in DOMAIN keyStore)
          => /\ last'.op = "incrementUsage" /\ ~last'.ok /\ ~last'.bonus
             /\ keyStore'[rkey[p]].totalUsage = keyStore[rkey[p]].totalUsage]_vars

\* C6 as stated: validateKey on any key, on the day of lastResetDate, leaves
\* todayUsage and lastResetDate alone; on a later day it sets todayUsage to 0
\* and lastResetDate to today.
C6_ResetOnAnyKey ==
    [][\A k \in DOMAIN keyStore : ValidateStep(k) =>
          IF keyStore[k].lastResetDate = Today
          THEN /\ keyStore'[k].todayUsage = keyStore[k].todayUsage
               /\ keyStore'[k].lastResetDate = keyStore[k].lastResetDate
          ELSE /\ keyStore'[k].todayUsage = 0
               /\ keyStore'[k].lastResetDate = Today]_vars

\* C6: validateKey on an enabled key, on the day of lastResetDate, leaves
\* todayUsage and lastResetDate alone; on a later day it sets todayUsage to 0
\* and lastResetDate to today, so that a second call that day resets nothing.
\* On a disabled key validateKey leaves both alone on any day.
C6_ResetOnEnabledKey ==
    [][\A k \in DOMAIN keyStore : ValidateStep(k) =>
          IF keyStore[k].enabled /\ keyStore[k].lastResetDate # Today
          THEN /\ keyStore'[k].todayUsage = 0
               /\ keyStore'[k].lastResetDate = Today
          ELSE /\ keyStore'[k].todayUsage = keyStore[k].todayUsage
               /\ keyStore'[k].lastResetDate = keyStore[k].lastResetDate]_vars

\* C6 witness: on a day after the key's first, validateKey has reset a count
\* that was not 0 and admitted the request
C6_Witness ==
    /\ last.op = "validateKey" /\ last.ok
    /\ last.key \in DOMAIN keyStore
    /\ Today > MaxAddedAt \div DayTicks
    /\ keyStore[last.key].lastResetDate = Today
    /\ keyStore[last.key].todayUsage = 0
    /\ keyStore[last.key].totalUsage > 0
    /\ \E p \in Procs : pc[p] = "admitted"

\* the tenant holds a bonus exactly for its credentials the pool finds
\* healthy, and the key caches what those bonuses leave
Reflects(k) ==
    LET credentials == users[k].credentials
        bonuses == users[k].credentialBonuses
        healthyIds == {credentials[i].id : i \in
                          {j \in 1..Len(credentials) : pool[credentials[j].id] = "true"}}
    IN  /\ \A i \in 1..Len(credentials) :
              hasBonusFor(bonuses, credentials[i].id) <=> credentials[i].id \in healthyIds
        /\ keyStore[k].bonusRemaining = SumSeq([i \in 1..Len(bonuses) |-> Left(bonuses[i])])

\* C9: with the scheduler running and nothing else acting, whenever the pool
\* has changed a credential's health the scheduled passes lead to a state
\* where the tenant's bonuses and the key's bonusRemaining reflect the pool.
C9_ScheduledPassReconciles ==
    (\E k \in KeyIds : ~Reflects(k)) ~> (\A k \in KeyIds : Reflects(k))


KeysOnDisk ==
    IF disk[StoreFile("keys")].kind = "json" THEN DOMAIN disk[StoreFile("keys")].data.keys
    ELSE {}

\* a management call comes back to its caller in this step
Returns == admin'.pc = "returned" /\ admin'.result = "ok" /\ admin' # admin

\* the flush the call awaited ended in its catch
FlushFailed == admin.pc = "flushing" /\ disk' = disk

\* C12: when createKey or deleteKey returns, the key table's file already
\* holds the created key, or no longer holds the deleted one, whatever the
\* background timer did meanwhile, a flush in flight included (a write that
\* fails aside).
C12_ImmediateDurability ==
    [][Returns /\ ~FlushFailed =>
        /\ admin'.op = "createKey" => admin'.key \in KeysOnDisk'
        /\ admin'.op = "deleteKey" => admin'.key \notin KeysOnDisk']_vars


\* ------------------------------------------------------------- hot reload
\* the watcher's callback runs on a waiting change event
WatchStep == watcher.events # "none" /\ watcher'.events = "none"

\* C16: a hot reload changes the config and nothing else of the store: the
\* tenants, their credentials, their grants and the used counts of the
\* grants are the same before and after, whatever the file holds.
C16_ReloadFrame ==
    [][WatchStep => users' = users /\ keyStore' = keyStore /\ usersDirty' = usersDirty]_vars

\* a reload has taken its config from a file whose tenants are not those in
\* memory
C16_Witness ==
    /\ watcher.lastReloadTime = now
    /\ watcher.events = "none"
    /\ disk[StoreFile("users")].kind = "json"
    /\ "config" \in DOMAIN disk[StoreFile("users")].data
    /\ disk[StoreFile("users")].data.config = config
    /\ config # DEFAULT_CONFIG
    /\ disk[StoreFile("users")].data.users # users
    /\ ~usersDirty

\* C17: the watcher applies no reload while a flush is in flight, and a
\* change event of the store's own write never replaces the config in memory
\* by the one of the file.
C17_NoSelfReload ==
    /\ [][WatchStep /\ persist["users"].isWriting => config' = config]_vars
    /\ [][WatchStep /\ watcher.events = "own" => config' = config]_vars

\* C18: the timers of both stores run at the persist interval of the config,
\* whether updateConfig or a hot reload set it.
C18_TimersFollowInterval ==
    /\ timer.users = config.persistInterval
    /\ timer.keys = config.persistInterval


\* ---------------------------------------------------------------- config
\* a flush of store s ends in its catch
FlushFails(s) == persist[s].isWriting /\ ~persist'[s].isWriting /\ disk' = disk

\* C13: a flush begun by the timer that fails is not surfaced and leaves the
\* dirty flag set; a flush awaited by a management call (updateConfig among
\* them) that fails comes back to the caller as an error.
C13_FlushFailureSurfaced ==
    [][\A s \in Stores : FlushFails(s) =>
            /\ isDirty(s)'
            /\ IF persist[s].by = "admin"
               THEN admin'.pc = "returned" /\ admin'.result = "error"
               ELSE admin' = admin]_vars

\* C19 as stated: after any updateConfig calls and config PUTs the daily
\* limit, the bonus per credential and the validity are all positive and the
\* persist interval is at least 1000.
C19_AllPositive ==
    /\ config.defaultDailyLimit > 0
    /\ config.bonusPerCredential > 0
    /\ config.bonusValidityDays > 0
    /\ config.persistInterval >= MinPersistInterval

\* the fields of newConfig that fail their check: the persist interval
\* under 1000, the bonus per credential under 0, the others under 1
Refused(newConfig) ==
    {f \in DOMAIN newConfig :
        /\ newConfig[f] # Undefined
        /\ newConfig[f] < (IF f = "persistInterval" THEN MinPersistInterval
                           ELSE IF f = "bonusPerCredential" THEN 0 ELSE 1)}

\* C19 amended: after any updateConfig calls and config PUTs the daily limit
\* and the validity are positive, the bonus per credential is zero or more,
\* the persist interval is at least 1000; whatever is asked next, a field
\* that fails its check leaves the stored value as it was, a field that
\* passes is stored, and the PUT takes a body just when no field fails.
C19_ConfigValid ==
    /\ config.defaultDailyLimit > 0
    /\ config.bonusPerCredential >= 0
    /\ config.bonusValidityDays > 0
    /\ config.persistInterval >= MinPersistInterval
    /\ \A newConfig \in NewConfigs :
        /\ \A f \in Refused(newConfig) : validatedConfig(newConfig)[f] = config[f]
        /\ \A f \in DOMAIN newConfig \ Refused(newConfig) :
                validatedConfig(newConfig)[f] =
                    IF newConfig[f] = Undefined THEN config[f] ELSE newConfig[f]
        /\ putConfigValid(newConfig) <=> Refused(newConfig) = {}

\* a PUT has stored a bonus of zero and the smallest interval
C19_Witness ==
    /\ admin.op = "putConfig" /\ admin.pc = "returned" /\ admin.result = "ok"
    /\ config.bonusPerCredential = 0
    /\ config.persistInterval = MinPersistInterval
    /\ disk[StoreFile("users")].data.config = config


\* ---------------------------------------------------------- authentication
\* C14: validateKey answers invalid_format to a key without the prefix,
\* not_found to an unknown key and disabled to a key that is not enabled,
\* whatever its todayUsage, dailyLimit and bonusRemaining are, and makes no
\* lazy reset for it; the quota is looked at only for an enabled key.
C14_DisabledWins ==
    /\ [](\A apiKey \in ApiKeyInputs :
            LET v == validateKey(apiKey)
            IN  IF ~startsWith(apiKey, KEY_PREFIX)
                THEN v.ret = Rejected(apiKey, "invalid_format") /\ v.keys = keyStore
                ELSE IF apiKey \notin DOMAIN keyStore
                THEN v.ret = Rejected(apiKey, "not_found") /\ v.keys = keyStore
                ELSE IF ~keyStore[apiKey].enabled
                THEN v.ret = Rejected(apiKey, "disabled") /\ v.keys = keyStore
                ELSE v.ret.ok \/ v.ret.reason = "quota_exceeded")
    /\ [][\A k \in DOMAIN keyStore : ValidateStep(k) /\ ~keyStore[k].enabled =>
                /\ ~last'.ok /\ last'.reason = "disabled"
                /\ keyStore' = keyStore
                /\ pc' = pc]_vars

\* a key with quota left, on a day after its last reset, has just been
\* refused as disabled
C14_Witness ==
    /\ last.op = "validateKey" /\ ~last.ok /\ last.reason = "disabled"
    /\ last.key \in DOMAIN keyStore
    /\ ~keyStore[last.key].enabled
    /\ keyStore[last.key].todayUsage < keyStore[last.key].dailyLimit
    /\ keyStore[last.key].lastResetDate # Today

\* C15: authenticate sends an error just when validateKey did not admit the
\* request: 401 for invalid_format and not_found, 403 for disabled, 429 for
\* quota_exceeded, authorized false; an admitted request gets no error and
\* authorized true.
C15_RejectionStatus ==
    [][\A apiKey \in ApiKeyInputs : ValidateStep(apiKey) =>
          LET v == validateKey(apiKey).ret
          IN  /\ last'.ok = v.ok /\ last'.reason = v.reason
              /\ last'.authorized = v.ok
              /\ (last'.status # 0) = ~v.ok
              /\ v.reason \in {"invalid_format", "not_found"} => last'.status = 401
              /\ v.reason = "disabled" => last'.status = 403
              /\ v.reason = "quota_exceeded" => last'.status = 429]_vars

\* a request on a key out of quota and bonus has just been answered 429
C15_Witness ==
    /\ last.op = "validateKey" /\ last.status = 429 /\ ~last.authorized
    /\ last.key \in DOMAIN keyStore
    /\ keyStore[last.key].enabled
    /\ keyStore[last.key].todayUsage >= keyStore[last.key].dailyLimit
    /\ keyStore[last.key].bonusRemaining = 0


\* ------------------------------------------------------------ credentials
\* where a path is held: tenant and position
Holders(path) ==
    {h \in (DOMAIN users) \X (1..Len(NewCredIds)) :
        /\ h[2] <= Len(users[h[1]].credentials)
        /\ users[h[1]].credentials[h[2]].path = path}

\* C20: after any addUserCredential calls a path is held by one tenant at
\* most and once at most by that tenant, and adding a path its tenant holds
\* already leaves the id and addedAt of the credential as they were.
C20_PathUniqueness ==
    /\ [](\A path \in Paths : Cardinality(Holders(path)) <= 1)
    /\ [][\A k \in DOMAIN users : \A i \in 1..Len(users[k].credentials) :
            /\ Len(users'[k].credentials) >= i
            /\ users'[k].credentials[i] = users[k].credentials[i]]_vars

\* ------------------------------------------------------------ the grants
NoDuplicate(bonuses) ==
    \A i, j \in 1..Len(bonuses) :
        bonuses[i].credentialId = bonuses[j].credentialId => i = j

LiveGrant(bonuses, c) ==
    \E i \in 1..Len(bonuses) : bonuses[i].credentialId = c /\ ~Expired(bonuses[i])

\* C21: in every reachable state a tenant holds at most one bonus per
\* credential; a grant on a credential that has a live bonus changes nothing
\* (grantedAt and usedCount stay), and a grant on a credential that has no
\* live bonus (none, or only an expired one) leaves a bonus for it with
\* usedCount 0 that is not expired.
C21_GrantOncePerCredential ==
    \A k \in DOMAIN users :
        LET bonuses == users[k].credentialBonuses
        IN  /\ NoDuplicate(bonuses)
            /\ \A c \in CredIds :
                  LET granted == addCredentialBonus(bonuses, c)
                  IN  /\ NoDuplicate(granted)
                      /\ LiveGrant(bonuses, c) => granted = bonuses
                      /\ ~LiveGrant(bonuses, c) =>
                            \E i \in 1..Len(granted) :
                                /\ granted[i].credentialId = c
                                /\ granted[i].usedCount = 0
                                /\ ~Expired(granted[i])

\* C23: every remaining value reported for a bonus is max(0,
\* bonusPerCredential - usedCount) and never negative: each bonus of a
\* getBonusDetails answer, the answer's total, and calculateBonusRemaining
\* of the tenant, also after bonusPerCredential went below a usedCount.
C23_RemainingClamped ==
    /\ \A k \in DOMAIN users :
          LET bonuses == users[k].credentialBonuses
          IN  calculateBonusRemaining(bonuses, {}, FALSE)
                  = SumSeq([i \in 1..Len(bonuses) |-> Left(bonuses[i])])
    /\ admin.op = "getBonusDetails" =>
          LET d == admin.view
          IN  /\ \A i \in 1..Len(d.bonuses) :
                    /\ d.bonuses[i].remaining >= 0
                    /\ d.bonuses[i].remaining
                           = Max(0, d.bonusPerCredential - d.bonuses[i].usedCount)
              /\ d.totalRemaining
                    = SumSeq([i \in 1..Len(d.bonuses) |->
                                 Max(0, d.bonusPerCredential - d.bonuses[i].usedCount)])

\* ----------------------------------------------------- after a removal
\* the tenant's bonuses belong to credentials it holds, and the key's cached
\* bonusRemaining is no more than what those bonuses can hold
NothingOfRemoved(k) ==
    LET bonuses == users[k].credentialBonuses
        held == {users[k].credentials[i].id : i \in 1..Len(users[k].credentials)}
    IN  /\ \A i \in 1..Len(bonuses) : bonuses[i].credentialId \in held
        /\ k \in DOMAIN keyStore =>
              keyStore[k].bonusRemaining
                  <= SumSeq([i \in 1..Len(bonuses) |-> Max(0, Capacity - bonuses[i].usedCount)])

\* checkUserCredentialsHealth(k) returns in this step
OnDemandPassEnds(k) == sync.pc = "synced" /\ sync.key = k /\ sync'.pc = "idle"

\* the apply-bonus pass answers in this step, having failed on no tenant
BulkPassEnds ==
    /\ admin.pc \in {"idle", "returned", "applying", "applySynced"}
    /\ admin'.op = "applyBonus" /\ admin'.pc = "returned"
    /\ admin' # admin
    /\ admin'.view.totalSynced
          = Cardinality({j \in 1..Len(admin'.view.allKeyIds) :
                            Len(getUserCredentials(admin'.view.allKeyIds[j])) # 0})

\* C22: when a pass for a tenant (checkUserCredentialsHealth) or a pass over
\* all keys (apply-bonus) ends after credentials of the tenant were removed,
\* no bonus is left for a removed credential and the key's cached
\* bonusRemaining does not include one, also when the tenant has no
\* credential left.
C22_RemovedCredentialLosesBonus ==
    [][\A k \in KeyIds :
          (k \in DOMAIN users /\ (OnDemandPassEnds(k) \/ BulkPassEnds))
              => NothingOfRemoved(k)']_vars

\* ------------------------------------------------------- the keys managed
\* regenerateKey(old) is called in this step
RegenerateCall(old) ==
    /\ admin.pc \in {"idle", "returned"}
    /\ admin'.op = "regenerateKey" /\ admin'.key = old
    /\ admin' # admin

\* the fields of a key record that regenerateKey is to keep
KeptFields == {"name", "dailyLimit", "todayUsage", "totalUsage", "lastResetDate", "enabled",
               "bonusRemaining"}

\* C24: regenerateKey(old) on a key of the table leaves the record under a
\* new id that no key of the table had, old included, and not under old
\* (validateKey(old) answers not_found); the record keeps dailyLimit,
\* todayUsage, totalUsage, lastResetDate, enabled and bonusRemaining, the
\* other keys and the number of keys are as before. On an id the table has
\* not it answers null and changes nothing.
C24_RegenerateMovesRecord ==
    [][\A old \in RandomKeyIds :
          RegenerateCall(old) =>
              IF old \in DOMAIN keyStore
              THEN LET new == admin'.view.newKey
                   IN  /\ new \notin DOMAIN keyStore
                       /\ DOMAIN keyStore' = (DOMAIN keyStore \ {old}) \cup {new}
                       /\ Cardinality(DOMAIN keyStore') = Cardinality(DOMAIN keyStore)
                       /\ validateKey(old).ret.reason' = "not_found"
                       /\ \A f \in KeptFields : keyStore'[new][f] = keyStore[old][f]
                       /\ \A k \in DOMAIN keyStore \ {old} : keyStore'[k] = keyStore[k]
              ELSE /\ admin'.result = "null"
                   /\ keyStore' = keyStore
                   /\ keysDirty' = keysDirty]_vars

\* a used key was regenerated next to another key, and not by the first id
\* generateApiKey could have come up with
C24_Witness ==
    /\ admin.op = "regenerateKey" /\ admin.result = "ok" /\ admin.pc = "returned"
    /\ Cardinality(DOMAIN keyStore) = 2
    /\ admin.view.oldKey \notin DOMAIN keyStore
    /\ admin.view.newKey \in DOMAIN keyStore
    /\ keyStore[admin.view.newKey].todayUsage > 0
    /\ keyStore[admin.view.newKey].bonusRemaining > 0
    /\ ~keyStore[admin.view.newKey].enabled

\* the ids the table has not
Absent == RandomKeyIds \ DOMAIN keyStore

\* C25: deleteKey, updateKeyName, updateKeyLimit, toggleKey and
\* resetKeyUsage, called with an id the table has not, answer false or null,
\* leave the table as it is and do not set the dirty flag.
C25_NotFoundChangesNothing ==
    \A keyId \in Absent :
        /\ deleteKey(keyId) = [result |-> "false", keys |-> keyStore, dirty |-> keysDirty]
        /\ toggleKey(keyId) = [result |-> "null", keys |-> keyStore, dirty |-> keysDirty]
        /\ resetKeyUsage(keyId) = [result |-> "null", keys |-> keyStore, dirty |-> keysDirty]
        /\ \A d \in 0..MaxDaily :
              updateKeyLimit(keyId, d)
                  = [result |-> "null", keys |-> keyStore, dirty |-> keysDirty]
        /\ \A n \in Names :
              updateKeyName(keyId, n)
                  = [result |-> "null", keys |-> keyStore, dirty |-> keysDirty]

\* deleteKey answered false for an id the table has not, the table being
\* clean, with a key left in it
C25_Witness ==
    /\ admin.op = "deleteKey" /\ admin.result = "false"
    /\ admin.key \in Absent
    /\ ~keysDirty
    /\ keyStore # <<>>

\* a record as a reader is to see it: a count of an earlier day is 0 today
LazyView(keyData) ==
    IF keyData.lastResetDate < Today
    THEN [keyData EXCEPT !.todayUsage = 0, !.lastResetDate = Today]
    ELSE keyData

\* getKey or listKeys answers in this step
ViewCall == admin'.op \in {"getKey", "listKeys"} /\ admin' # admin

\* C26: getKey and listKeys answer with the records as they are after the
\* lazy daily reset (todayUsage 0 and lastResetDate today when the stored
\* lastResetDate is earlier), and leave the records of the table, and its
\* dirty flag, as they were.
C26_ViewsLeaveRecords ==
    [][ViewCall =>
          /\ keyStore' = keyStore
          /\ keysDirty' = keysDirty
          /\ admin'.op = "getKey" =>
                admin'.view = IF admin'.key \in DOMAIN keyStore
                              THEN <<LazyView(keyStore[admin'.key])>>
                              ELSE <<>>
          /\ admin'.op = "listKeys" =>
                admin'.view = [k \in DOMAIN keyStore |-> LazyView(keyStore[k])]]_vars

\* getKey answered with a count reset for today while the table holds the
\* count of an earlier day
C26_Witness ==
    /\ admin.op = "getKey" /\ admin.view # <<>>
    /\ admin.key \in DOMAIN keyStore
    /\ admin.view[1].todayUsage = 0
    /\ keyStore[admin.key].todayUsage > 0
    /\ keyStore[admin.key].lastResetDate < admin.view[1].lastResetDate

\* ------------------------------------------------ starting on any files
\* the store's file holds a document with the tables the store expects
Whole(s) ==
    LET file == disk[StoreFile(s)]
    IN  /\ file.kind = "json"
        /\ IF s = "keys" THEN "keys" \in DOMAIN file.data
           ELSE {"config", "users"} \subseteq DOMAIN file.data

\* the stores in memory are tables an operation can work on
WellFormed ==
    /\ DOMAIN config = DOMAIN DEFAULT_CONFIG
    /\ \A k \in DOMAIN keyStore : DOMAIN keyStore[k] = DOMAIN NewKey(0)
    /\ \A k \in DOMAIN users : DOMAIN users[k] = {"credentials", "credentialBonuses"}

\* C27 as stated: a store whose file is missing, does not parse or lacks an
\* expected table is loaded as the empty store, { keys: {} } or
\* { config: {}, users: {} }, and what is in memory stays workable.
C27_LoadFailureGivesEmpty ==
    /\ WellFormed
    /\ \A s \in Stores : ~Whole(s) => Load(s) = EmptyStore(s)

\* C27, amended: a store whose file is missing or does not parse is loaded
\* as the empty store, and so is the key store from a document without
\* keys; the user store takes from a document each of config and users the
\* document has and an empty one for each it lacks; what is in memory stays
\* workable.
C27_LoadFillsWhatIsMissing ==
    /\ WellFormed
    /\ ~Whole("keys") => Load("keys") = EmptyStore("keys")
    /\ LET file == disk[StoreFile("users")]
       IN  IF file.kind # "json" THEN Load("users") = EmptyStore("users")
           ELSE /\ Load("users").config = IF "config" \in DOMAIN file.data
                                          THEN file.data.config ELSE DEFAULT_CONFIG
                /\ Load("users").users = IF "users" \in DOMAIN file.data
                                         THEN file.data.users ELSE <<>>

\* the process was started on a key file cut short and a user document
\* without users: it holds no tenant, the document's config, and a key
\* created since
C27_Witness ==
    /\ disk[StoreFile("users")].kind = "json"
    /\ DOMAIN disk[StoreFile("users")].data = {"config"}
    /\ users = <<>>
    /\ config = disk[StoreFile("users")].data.config
    /\ config # DEFAULT_CONFIG
    /\ admin.op = "createKey" /\ admin.pc = "returned" /\ admin.result = "ok"
    /\ DOMAIN keyStore = {"maki_k2"}
    /\ disk[StoreFile("keys")] = Stringify("keys", keyStore, config, users)

\* ------------------------------------------- the scheduler started, stopped
\* a pass of checkAllCredentialsHealth begins in this step
PassStarts ==
    /\ sched.pc \in {"idle", "done"}
    /\ sched'.pc \in {"running", "done"}
    /\ sched' # sched \/ timer'.timeouts < timer.timeouts

\* C28: no pass begins while the scheduler is stopped, the first pass that
\* start armed included; start clears the timer of an earlier start, so that
\* never more than one interval timer is armed; a pass that is running gets
\* to its end, stopped or not.
C28_StoppedMeansNoPass ==
    /\ [][/\ PassStarts => timer.healthCheckTimer
          /\ timer'.intervals <= 1]_vars
    /\ (sched.pc = "running" ~> sched.pc = "done")

\* ---------------------------------------------------------------------------
\* C29: in a pass over all tenants the failure of one tenant does not end the
\* pass. When a health query throws in the pass over all keys, the ledger of
\* the tenant in hand and the bonusRemaining cached on its key stay as they
\* were, the tenant is not counted as synced, and the pass goes on with the
\* next tenant that holds a credential, answering only past the last one;
\* after a tenant that was reconciled the pass goes on in the same way. When
\* a health query throws in the scheduler's pass, nothing of any tenant
\* changes and the pass goes on with the next credential, ending only after
\* the last credential of the last tenant.
NextHolder(view) ==
    {j \in (view.i + 1)..Len(view.allKeyIds) :
        Len(getUserCredentials(view.allKeyIds[j])) # 0}

BatchGoesOn ==
    IF NextHolder(admin.view) = {}
    THEN /\ admin'.pc = "returned"
         /\ admin'.result = "200"
    ELSE /\ admin'.pc = "applying"
         /\ admin'.view.i \in NextHolder(admin.view)
         /\ \A j \in NextHolder(admin.view) : admin'.view.i <= j
         /\ admin'.key = admin.view.allKeyIds[admin'.view.i]

TenantFails ==
    /\ admin.pc = "applying"
    /\ admin'.pc \in {"applying", "returned"}
    /\ admin'.view.i # admin.view.i

TenantReconciled ==
    /\ admin.pc = "applySynced"
    /\ admin'.pc # "applySynced"

QueryFails ==
    /\ sched.pc = "running"
    /\ sched' # sched
    /\ sched'.checked = sched.checked

LastCredential ==
    /\ sched.u = Len(sched.allUsers)
    /\ sched.c = Len(sched.allUsers[sched.u].credentials)

C29_BatchIsolatesFailure ==
    [][/\ TenantFails =>
            /\ users' = users
            /\ keyStore' = keyStore
            /\ admin'.view.totalSynced = admin.view.totalSynced
            /\ admin'.view.totalBonusUpdated = admin.view.totalBonusUpdated
            /\ BatchGoesOn
       /\ TenantReconciled =>
            /\ admin'.view.totalSynced = admin.view.totalSynced + 1
            /\ BatchGoesOn
       /\ QueryFails =>
            /\ users' = users
            /\ keyStore' = keyStore
            /\ sched'.healthy = sched.healthy
            /\ sched'.unhealthy = sched.unhealthy
            /\ (sched'.pc = "done") = LastCredential
            /\ LastCredential \/ sched'.total = sched.total + 1]_vars

\* a pass over all keys has answered: the first tenant failed with its ledger
\* left empty, the second one was reconciled and granted
C29_Witness ==
    /\ admin.op = "applyBonus"
    /\ admin.pc = "returned"
    /\ admin.view.totalSynced = 1
    /\ Len(admin.view.allKeyIds) = 2
    /\ LET first == admin.view.allKeyIds[1]
           second == admin.view.allKeyIds[2]
       IN  /\ Len(getUserCredentials(first)) # 0
           /\ first \in DOMAIN users
           /\ users[first].credentialBonuses = <<>>
           /\ second \in DOMAIN users
           /\ users[second].credentialBonuses # <<>>
           /\ keyStore[second].bonusRemaining > 0
           /\ sched.pc = "done"
           /\ sched.total > sched.checked

\* ---------------------------------------------------------------------------
\* C30: the bonus mutex gives mutual exclusion in first-come order. At most
\* one caller is inside a body of runExclusive, and the lock is held exactly
\* while a caller is inside or somebody waits for a lock that was handed on;
\* a caller who finds the lock held joins the waiters at the end; a release,
\* after a body that returned as after one that threw, hands the lock to the
\* waiter who called first and to nobody else, or frees the lock when nobody
\* waits; and, every body finishing, every caller who waits is granted the
\* lock and every caller granted it releases it.
Inside == {p \in DOMAIN pc : pc[p] \in {"granted", "holding"}}

Woken == {q \in DOMAIN pc : pc[q] # "granted" /\ pc'[q] = "granted"}

Queues(p) ==
    /\ pc[p] = "idle"
    /\ pc'[p] = "waiting"

Releases(p) ==
    /\ pc[p] = "holding"
    /\ pc'[p] = "released"

C30_MutexIsFifo ==
    /\ [](/\ Cardinality(Inside) <= 1
          /\ locked = (Inside # {})
          /\ Len(waiting) = Cardinality({p \in DOMAIN pc : pc[p] = "waiting"})
          /\ \A i \in 1..Len(waiting) : pc[waiting[i]] = "waiting")
    /\ [][\A p \in DOMAIN pc :
            /\ Queues(p) => waiting' = Append(waiting, p)
            /\ pc[p] = "idle" /\ pc'[p] = "granted" => ~locked /\ waiting = <<>>
            /\ Releases(p) =>
                 IF waiting = <<>>
                 THEN Woken = {} /\ ~locked'
                 ELSE /\ Woken = {Head(waiting)}
                      /\ waiting' = Tail(waiting)
                      /\ locked']_vars
    /\ \A p \in Callers : (pc[p] = "waiting") ~> (pc[p] = "granted")
    /\ \A p \in Callers : (pc[p] = "granted") ~> (pc[p] = "released")

\* a caller whose body threw has released: of the two who waited the one
\* who called first holds the lock and the other one still waits
C30_Witness ==
    \E p, q, r \in DOMAIN pc :
        /\ pc[p] = "released"
        /\ ret[p] = "throw"
        /\ pc[q] = "granted"
        /\ pc[r] = "waiting"
        /\ waiting = <<r>>
        /\ locked

\* ---------------------------------------------------------------------------
\* C31: a call of incrementUsage takes one unit from one pool or nothing.
\* With todayUsage, after the lazy reset, below dailyLimit it adds 1 to
\* todayUsage and to totalUsage and leaves the cached bonusRemaining and the
\* ledger alone; with neither pool holding quota it answers null and no
\* counter changes; and a call that took the bonus path and returns has had
\* consumeBonus add 1 to the usedCount of one bonus, and adds 1 to totalUsage.
RecordReturns(p) ==
    /\ pc[p] \in {"admitted", "released"}
    /\ pc'[p] = "idle"
    /\ rkey[p] \in DOMAIN keyStore

C31_OneUnitFromOnePool ==
    [][\A p \in Procs : RecordReturns(p) =>
          LET before == checkAndResetDailyCount(keyStore[rkey[p]])
              after == keyStore'[rkey[p]]
          IN  IF pc[p] = "released"
              THEN /\ ret[p] = "true"
                   /\ after.totalUsage = before.totalUsage + 1
                   /\ after.todayUsage = before.todayUsage
              ELSE IF before.todayUsage < before.dailyLimit
              THEN /\ after.todayUsage = before.todayUsage + 1
                   /\ after.totalUsage = before.totalUsage + 1
                   /\ after.bonusRemaining = before.bonusRemaining
                   /\ users' = users
              ELSE /\ after = before
                   /\ users' = users
                   /\ last'.op = "incrementUsage" /\ ~last'.ok]_vars

\* ---------------------------------------------------------------------------
\* C32: what syncCredentialBonuses leaves and returns. Afterwards every bonus
\* of the tenant belongs to a credential reported healthy and is not expired,
\* and no credential has two; a bonus that was there, not expired, for a
\* credential reported healthy is still there with its usedCount and
\* grantedAt; a healthy credential that had no bonus has one with usedCount 0
\* granted at its addedAt (at the time of the call when it has none), unless
\* that is expired already; there is no other bonus; and the bonusRemaining
\* returned is the sum of max(0, bonusPerCredential - usedCount) over the
\* bonuses left.
Fresh(r) ==
    [credentialId |-> r.id,
     grantedAt |-> IF r.addedAt = NoAddedAt THEN now ELSE r.addedAt,
     usedCount |-> 0]

C32_ReconcilePostcondition ==
    [][ReconcileStep =>
          LET old == ensureUserData(sync'.key)[sync'.key].credentialBonuses
              new == users'[sync'.key].credentialBonuses
              healthy == {i \in 1..Len(sync'.results) : sync'.results[i].isHealthy = "true"}
              healthyIds == {sync'.results[i].id : i \in healthy}
              granted == {i \in healthy : ~hasBonusFor(old, sync'.results[i].id)}
          IN  /\ \A m \in 1..Len(new) :
                    /\ new[m].credentialId \in healthyIds
                    /\ ~Expired(new[m])
                    /\ \/ \E j \in 1..Len(old) : old[j] = new[m]
                       \/ \E i \in granted : new[m] = Fresh(sync'.results[i])
              /\ \A m, n \in 1..Len(new) :
                    new[m].credentialId = new[n].credentialId => m = n
              /\ \A j \in 1..Len(old) :
                    (old[j].credentialId \in healthyIds /\ ~Expired(old[j]))
                    => \E m \in 1..Len(new) : new[m] = old[j]
              /\ \A i \in granted :
                    ~Expired(Fresh(sync'.results[i]))
                    => \E m \in 1..Len(new) : new[m] = Fresh(sync'.results[i])
              /\ sync'.bonusSync.bonusRemaining
                 = SumSeq([m \in 1..Len(new) |-> Max(0, Capacity - new[m].usedCount)])]_vars

\* a pass has just reconciled: the bonus of the first credential, used since
\* it was granted, is kept and the second credential, healthy for the first
\* time and added after the first, got a bonus of its own
C32_Witness ==
    /\ sync.pc = "synced"
    /\ sync.bonusSync.added = 1
    /\ sync.key \in DOMAIN users
    /\ LET bonuses == users[sync.key].credentialBonuses
           credentials == users[sync.key].credentials
       IN  /\ Len(bonuses) = 2
           /\ Len(credentials) = 2
           /\ bonuses[1].usedCount > 0
           /\ bonuses[2] = [credentialId |-> credentials[2].id,
                            grantedAt |-> credentials[2].addedAt, usedCount |-> 0]
           /\ credentials[2].addedAt # now
           /\ sync.bonusSync.bonusRemaining > 0

\* ---------------------------------------------------------------------------
\* C33: the bonusRemaining cached on a key is never negative.
\* updateBonusRemaining(id, n) stores max(0, n) and marks the key store dirty,
\* for an id the table has not it changes nothing; no step that changes a
\* key's bonusRemaining writes a file or begins a flush; and a request lowers
\* bonusRemaining only from a value above 0, by 1.
CacheChanges(k) ==
    /\ k \in DOMAIN keyStore'
    /\ keyStore'[k].bonusRemaining # keyStore[k].bonusRemaining

C33_CacheNeverNegative ==
    /\ [](/\ \A k \in DOMAIN keyStore : keyStore[k].bonusRemaining >= 0
          /\ \A k \in KeyCallIds, n \in BonusInputs :
                LET r == updateBonusRemaining(k, n)
                IN  IF k \in DOMAIN keyStore
                    THEN /\ r.keys[k].bonusRemaining = (IF n > 0 THEN n ELSE 0)
                         /\ r.dirty
                    ELSE r.keys = keyStore /\ r.dirty = keysDirty)
    /\ [][\A k \in DOMAIN keyStore : CacheChanges(k) =>
            /\ disk' = disk
            /\ persist' = persist
            /\ pc' # pc =>
                 /\ keyStore[k].bonusRemaining > 0
                 /\ keyStore'[k].bonusRemaining = keyStore[k].bonusRemaining - 1]_vars

\* of two requests admitted on the last unit of the cache, which
\* updateBonusRemaining had set, one has taken it on the bonus path and stands
\* before the body of consumeBonus; the other one has not recorded yet
C33_Witness ==
    \E k \in DOMAIN keyStore, p, q \in Procs :
        /\ keyStore[k].bonusRemaining = 0
        /\ keysDirty
        /\ rkey[p] = k /\ pc[p] = "granted"
        /\ rkey[q] = k /\ pc[q] = "admitted"
        /\ users[k].credentialBonuses[1].usedCount = 0
        /\ persist["keys"].isWriting

\* ---------------------------------------------------------------------------
\* C34: when the process ends on SIGINT or SIGTERM with the key store dirty,
\* the key store's file holds the key table memory held.
C34_ExitSavesKeys ==
    [][(Running /\ admin'.pc = "exited" /\ keysDirty)
       => disk'[StoreFile("keys")] = Stringify("keys", keyStore, config, users)]_vars

\* ---------------------------------------------------------------------------
\* C35: no update is lost by the flushes in the background: the dirty flag
\* of a store is never clear while the store's file differs from what memory
\* holds, also when the store was changed while a flush of it was in flight.
C35_NoLostUpdate ==
    \A s \in Stores :
        ~isDirty(s) => disk[StoreFile(s)] = Stringify(s, keyStore, config, users)

\* ---------------------------------------------------------------------------
\* C36: when checkUserCredentialsHealth ends for a tenant, the bonusRemaining
\* cached on the key is what the tenant's bonuses have left, also when calls
\* of incrementUsage on the bonus path for the same key run between the
\* steps of the pass.
PassEnds == sync.pc = "synced" /\ sync'.pc = "idle"

C36_PassLeavesCacheExact ==
    [][(PassEnds /\ sync.key \in DOMAIN keyStore' /\ sync.key \in DOMAIN users')
       => keyStore'[sync.key].bonusRemaining
          = calculateBonusRemaining(users'[sync.key].credentialBonuses, {}, FALSE)]_vars

\* ---------------------------------------------------------------------------
\* C37: a request that validateKey admitted has its incrementUsage take one
\* unit, however the requests on the key interleave: incrementUsage does not
\* answer null to it, and on the bonus path consumeBonus answers true.
C37_AdmittedIsRecorded ==
    [][\A p \in Procs : RecordReturns(p) =>
          /\ last'.op = "incrementUsage"
          /\ last'.ok
          /\ pc[p] = "released" => ret[p] = "true"]_vars

\* ---------------------------------------------------------------------------
\* C38: whenever no management call is under way, every entry of the user
\* table stands under an id the key table holds: deleteKey leaves no tenant
\* data under the id, and after a regeneration, by the administrator's route
\* or the holder's, the tenant's credentials and bonuses are under the new id.
C38_TenantsHaveKeys ==
    (admin.pc \in {"idle", "returned"} /\ RouteDone)
    => DOMAIN users \subseteq DOMAIN keyStore

\* the holder's route alone keeps the tenant with its key
C38_HolderRouteMigrates ==
    [][(admin.op = "userRegenerateKey" /\ admin'.op = "userRegenerated"
        /\ admin'.pc = "returned" /\ admin.view.oldKey \in DOMAIN users)
       => /\ admin.view.oldKey \notin DOMAIN users'
          /\ users'[admin.view.newKey] = users[admin.view.oldKey]
          /\ admin.view.newKey \in DOMAIN keyStore']_vars

\* ---------------------------------------------------------------------------
\* C39: generateApiKey ends within maxAttempts turns and never returns an id
\* the key table holds; it throws only when every one of the maxAttempts ids
\* drawn was in the table, and when one of them, the last one included, was
\* not, it returns the first such id.
C39_GenerateWithinBound ==
    admin.op = "generateApiKey" =>
        LET randomBytes == admin.view.randomBytes
            free == {i \in 1..maxAttempts : randomBytes[i] \notin DOMAIN keyStore}
        IN  /\ admin.view.attempts <= maxAttempts
            /\ admin.result = "ok" => admin.key \notin DOMAIN keyStore
            /\ admin.result = "throw" => free = {}
            /\ free # {} =>
                 /\ admin.result = "ok"
                 /\ \E i \in free : /\ admin.key = randomBytes[i]
                                     /\ \A j \in free : i <= j

\* what the loop does keep: it ends within maxAttempts turns, returns only an
\* id the table has not, and returns the first free id of the turns before
\* the last one
GenerateWithinNineTurns ==
    admin.op = "generateApiKey" =>
        LET randomBytes == admin.view.randomBytes
            free == {i \in 1..(maxAttempts - 1) : randomBytes[i] \notin DOMAIN keyStore}
        IN  /\ admin.view.attempts <= maxAttempts
            /\ admin.result = "ok" => admin.key \notin DOMAIN keyStore
            /\ (admin.result = "throw") = (free = {})
            /\ free # {} =>
                 \E i \in free : /\ admin.key = randomBytes[i]
                                 /\ \A j \in free : i <= j

\* ---------------------------------------------------------------------------
\* C40: incrementUsage called while the key is not enabled, as for a request
\* that was validated before the key was toggled, takes nothing: todayUsage,
\* bonusRemaining and totalUsage of the key and the bonuses of its tenant
\* stay as they are.
RecordBegins(p) ==
    /\ pc[p] = "admitted"
    /\ pc'[p] # "admitted"
    /\ rkey[p] \in DOMAIN keyStore

C40_DisabledKeyNotCharged ==
    [][\A p \in Procs :
          (RecordBegins(p) /\ ~keyStore[rkey[p]].enabled)
          => /\ keyStore'[rkey[p]].todayUsage = keyStore[rkey[p]].todayUsage
             /\ keyStore'[rkey[p]].bonusRemaining = keyStore[rkey[p]].bonusRemaining
             /\ keyStore'[rkey[p]].totalUsage = keyStore[rkey[p]].totalUsage
             /\ users' = users
             /\ pc'[p] = "idle"]_vars

====
